---- MODULE Spec2Model ----
(***************************************************************************)
(* Combo deal checker: deal identity and reconciliation.                   *)
(*                                                                         *)
(* Two specifications share this module.                                   *)
(*   Spec     the run pipeline of main(): the scrapers run one after the   *)
(*            other, the deals are filtered, the three notification        *)
(*            functions read and write the persisted seen-set, and the     *)
(*            next run starts from the seen-set the previous one left.     *)
(*   SpecUrl  normalize_url as a function of one URL.                      *)
(*                                                                         *)
(* A URL is a sequence of tokens; each token stands for a contiguous       *)
(* piece of the string ("amazon.com", "/dp/", one character of an ASIN).   *)
(* Prices are whole dollars.                                               *)
(***************************************************************************)
EXTENDS Integers, Sequences, FiniteSets, TLC

VARIABLES
    run,               \* number of the current run of main()
    pc,                \* position of main() in the current run
    idx,               \* index of the scraper the current loop is at
    webhook,           \* config.discord_webhook_url is set
    seen_file,         \* content of SEEN_DEALS_FILE (cache/seen_deals.json)
    all_deals,         \* main: all_deals
    all_ram_deals,     \* main: all_ram_deals
    scraper_results,   \* main: scraper_results, name -> status
    seen_urls,         \* main: seen_urls, loaded before the notifications
    oos_deals,         \* main: oos_deals
    disappeared_urls,  \* main: disappeared_urls
    exhausted,         \* history: scrapers whose every attempt failed this run
    sent,              \* history: dispatch outcomes of the latest notification call
    undelivered,       \* history: some dispatch of this run was not delivered
    new_ids,           \* history: identities dispatched as new, per call
    writes,            \* history: calls of _save_seen_urls in this run
    seen_at_start,     \* history: seen-set when the run started
    delivered,         \* history: identities delivered as new, not expired since
    expired,           \* history: URLs notified as expired, not notified as new since
    url_in,            \* SpecUrl: the URL given to normalize_url
    url_key,           \* SpecUrl: the key it returned
    upc,               \* SpecUrl: "input" before the call, "done" after
    arg,               \* SpecFn: the argument of the function applied
    ret,               \* SpecFn: what the call returned or raised
    fpc,               \* SpecFn: the function to call, "done" after the call
    details,           \* DealCache._details: url -> serialized detail deal
    details_file,      \* cache/deal_details.json
    fetched,           \* history: urls whose detail page has been fetched
    scrape_log,        \* history: per listing of the latest scrape, what was done
    nscrapes,          \* history: calls of NeweggScraper.scrape so far
    price_cache,       \* AmazonPriceLookup._cache: name -> price
    disk_prices,       \* DealCache._prices, entries not expired: name -> price
    assigned,          \* history: the names of the assignments to _cache
    searched,          \* history: the names given to _search_price
    _prices,           \* DealCache._prices: name -> price and timestamp
    clock,             \* time.time()
    saves,             \* history: per cache, key -> value and time of the latest save
    runner             \* BaseScraper.run step by step: position, handles, open browsers

runVars == <<run, pc, idx, webhook, seen_file, all_deals, all_ram_deals,
             scraper_results, seen_urls, oos_deals, disappeared_urls,
             exhausted, sent, undelivered, new_ids, writes, seen_at_start,
             delivered, expired>>
urlVars == <<url_in, url_key, upc>>
fnVars == <<arg, ret, fpc>>
neweggVars == <<details, details_file, fetched, scrape_log, nscrapes>>
lookupVars == <<price_cache, disk_prices, assigned, searched>>
cacheVars == <<_prices, clock, saves>>
auxVars == <<urlVars, fnVars, neweggVars, lookupVars, cacheVars, runner>>
vars == <<runVars, auxVars>>

(***************************************************************************)
(* Bounds of the model.                                                    *)
(***************************************************************************)
MaxRuns == 2

\* At most this many scrapers use up all their attempts in one run.
MaxExhausted == 1

(***************************************************************************)
(* URLs and normalize_url.                                                 *)
(***************************************************************************)
AsinLen == 10

\* The characters of the class [A-Z0-9] that occur in the modelled URLs.
AsinChars == {"B", "0", "1", "2", "9"}

Asin(c) == <<"B", "0", "0", "0", "0", "0", "0", "0", "0", c>>

Contains(url, tok) == \E i \in 1..Len(url) : url[i] = tok

MinOf(S) == CHOOSE x \in S : \A y \in S : x <= y

\* _AMAZON_ASIN_RE.search(url): the position of the first "/dp/" that is
\* followed by AsinLen characters of [A-Z0-9]; 0 when there is no match.
\* The pattern is not anchored: what follows the ten characters is free.
AsinSearch(url) ==
    LET hits == {i \in 1..Len(url) :
                    /\ url[i] = "/dp/"
                    /\ i + AsinLen <= Len(url)
                    /\ \A k \in 1..AsinLen : url[i + k] \in AsinChars}
    IN IF hits = {} THEN 0 ELSE MinOf(hits)

AmazonKey(asin) == <<"https://www.", "amazon.com", "/dp/">> \o asin

normalize_url(url) ==
    IF Contains(url, "amazon.com")
    THEN LET m == AsinSearch(url)
         IN IF m # 0
            THEN AmazonKey(SubSeq(url, m + 1, m + AsinLen))
            ELSE url
    ELSE url

(***************************************************************************)
(* Config defaults.                                                        *)
(***************************************************************************)
min_budget == 500
max_budget == 1300
min_ram_gb == 32
max_retries == 3

(***************************************************************************)
(* Combo deals: assembly and filter.                                       *)
(***************************************************************************)
NoSpecs == [k \in {} |-> 0]

Component(category, specs, price) ==
    [category |-> category, specs |-> specs, individual_price |-> price]

\* Python's None, as get_component returns it.
NoComponent == Component("none", NoSpecs, 0)

\* ComboDeal.get_component: the first component of the category, or None.
get_component(deal, category) ==
    LET at == {i \in 1..Len(deal.components) :
                  deal.components[i].category = category}
    IN IF at = {} THEN NoComponent ELSE deal.components[MinOf(at)]

\* A plausible slip: the pairs are tested before the triple.
_detect_combo_type_pairs_first(components) ==
    LET categories == {components[i].category : i \in 1..Len(components)}
        has_cpu == "cpu" \in categories
        has_mb  == "motherboard" \in categories
        has_ram == "ram" \in categories
    IN IF has_cpu /\ has_ram THEN "CPU+RAM"
       ELSE IF has_mb /\ has_ram THEN "MB+RAM"
       ELSE IF has_cpu /\ has_mb THEN "CPU+MB"
       ELSE "OTHER"

_detect_combo_type(components) ==
    LET categories == {components[i].category : i \in 1..Len(components)}
        has_cpu == "cpu" \in categories
        has_mb  == "motherboard" \in categories
        has_ram == "ram" \in categories
    IN IF has_cpu /\ has_mb /\ has_ram THEN "CPU+MB+RAM"
       ELSE IF has_cpu /\ has_ram THEN "CPU+RAM"
       ELSE IF has_mb /\ has_ram THEN "MB+RAM"
       ELSE IF has_cpu /\ has_mb THEN "CPU+MB"
       ELSE "OTHER"

RECURSIVE SumPrices(_)
SumPrices(components) ==
    IF components = <<>> THEN 0
    ELSE Head(components).individual_price + SumPrices(Tail(components))

\* ComboDeal.calculate_savings
calculate_savings(deal) ==
    LET total == SumPrices(deal.components)
    IN [deal EXCEPT !.individual_total = total,
                    !.savings = total - deal.combo_price]

\* The deal a scraper's parser builds from a raw listing; ddr_default is the
\* DDR generation the parser infers for a RAM component that names none
\* (5 for Newegg, whose search is DDR5-only; 0 = no inference).
ParseListing(retailer, raw, ddr_default) ==
    LET fill(c) ==
            IF c.category = "ram" /\ "ddr" \notin DOMAIN c.specs /\ ddr_default # 0
            THEN [c EXCEPT !.specs = [k \in DOMAIN c.specs \cup {"ddr"} |->
                                        IF k = "ddr" THEN ddr_default ELSE c.specs[k]]]
            ELSE c
        components == [i \in 1..Len(raw.components) |-> fill(raw.components[i])]
    IN [retailer |-> retailer,
        combo_type |-> _detect_combo_type(components),
        components |-> components,
        combo_price |-> raw.price,
        individual_total |-> 0,
        savings |-> 0,
        url |-> raw.url,
        cpu_sc_score |-> 0,
        in_stock |-> TRUE]

parse_combo_item(raw) == ParseListing("Newegg", raw, 5)

parse_amazon_result(raw) == ParseListing("Amazon", raw, 0)

\* The stock flag of a listing, set on the parsed deal.
MarkStock(deal, raw) == [deal EXCEPT !.in_stock = raw.in_stock]

\* Keep the first deal of every raw URL (the scrapers' seen_urls sets).
RECURSIVE DedupByUrl(_, _)
DedupByUrl(deals, seen) ==
    IF deals = <<>> THEN <<>>
    ELSE LET d == Head(deals)
         IN IF d.url # <<>> /\ d.url \notin seen
            THEN <<d>> \o DedupByUrl(Tail(deals), seen \cup {d.url})
            ELSE DedupByUrl(Tail(deals), seen)

NotOther(deal) == deal.combo_type # "OTHER"

\* NeweggScraper.scrape, phase 2: listings parsed as OTHER are skipped.
NeweggScraper_scrape(page) ==
    SelectSeq([i \in 1..Len(page) |-> MarkStock(parse_combo_item(page[i]), page[i])],
              NotOther)

\* AmazonScraper.scrape: every parsed result of every query is kept, once
\* per raw URL.
AmazonScraper_scrape(page) ==
    DedupByUrl([i \in 1..Len(page) |-> MarkStock(parse_amazon_result(page[i]), page[i])],
               {})

check_ddr5(deal) ==
    LET ram == get_component(deal, "ram")
    IN IF ram = NoComponent THEN FALSE
       ELSE "ddr" \in DOMAIN ram.specs /\ ram.specs["ddr"] = 5

check_ram_capacity(deal, min_gb) ==
    LET ram == get_component(deal, "ram")
    IN IF ram = NoComponent THEN FALSE
       ELSE (IF "capacity_gb" \in DOMAIN ram.specs
             THEN ram.specs["capacity_gb"] ELSE 0) >= min_gb

check_budget(deal, min_price, max_price) ==
    min_price <= deal.combo_price /\ deal.combo_price <= max_price

\* Python's stable list.sort on a key (-k1, -k2): x goes behind every
\* element whose key is not smaller in that order.
KeyBefore(a, b) == a.k1 > b.k1 \/ (a.k1 = b.k1 /\ a.k2 > b.k2)

RECURSIVE InsertKeyed(_, _)
InsertKeyed(x, sorted) ==
    IF sorted = <<>> THEN <<x>>
    ELSE IF KeyBefore(x, Head(sorted)) THEN <<x>> \o sorted
    ELSE <<Head(sorted)>> \o InsertKeyed(x, Tail(sorted))

RECURSIVE SortKeyed(_)
SortKeyed(seq) ==
    IF seq = <<>> THEN <<>>
    ELSE InsertKeyed(seq[Len(seq)], SortKeyed(SubSeq(seq, 1, Len(seq) - 1)))

Items(keyed) == [i \in 1..Len(keyed) |-> keyed[i].item]

\* A plausible slip: the list is sorted on savings alone.
DealKeySavingsOnly(d) == [k1 |-> d.savings, k2 |-> 0, item |-> d]

\* key = (-savings, -cpu_sc_score)
DealKey(d) == [k1 |-> d.savings, k2 |-> d.cpu_sc_score, item |-> d]

\* The reasons filter_deals collects for one deal.
Reasons(deal) ==
    (IF ~deal.in_stock THEN {"out of stock"} ELSE {})
        \cup (IF ~check_ddr5(deal) THEN {"not DDR5"} ELSE {})
        \cup (IF ~check_ram_capacity(deal, min_ram_gb) THEN {"RAM below minimum"} ELSE {})
        \cup (IF ~check_budget(deal, min_budget, max_budget)
              THEN {"price outside budget"} ELSE {})

\* "if reasons: ... else: filtered.append(deal)"
Accepted(deal) == Reasons(deal) = {}

filter_deals(deals) ==
    LET kept == SelectSeq(deals, Accepted)
    IN Items(SortKeyed([i \in 1..Len(kept) |-> DealKey(kept[i])]))

\* main: enrich_deals, lookup_prices (ends in calculate_savings), filter_deals
filtered == filter_deals([i \in 1..Len(all_deals) |-> calculate_savings(all_deals[i])])

(***************************************************************************)
(* Standalone RAM deals.                                                   *)
(***************************************************************************)
VALID_CAPACITIES == {48, 64, 96, 128}

RAM_PRICE_LIMITS == (48 :> 450) @@ (64 :> 650) @@ (96 :> 800) @@ (128 :> 800)

\* A plausible slip: the tier limit is exclusive.
check_ram_price_below(deal) ==
    IF deal.capacity_gb \notin DOMAIN RAM_PRICE_LIMITS THEN FALSE
    ELSE 0 < deal.price /\ deal.price < RAM_PRICE_LIMITS[deal.capacity_gb]

check_ram_price(deal) ==
    IF deal.capacity_gb \notin DOMAIN RAM_PRICE_LIMITS THEN FALSE
    ELSE 0 < deal.price /\ deal.price <= RAM_PRICE_LIMITS[deal.capacity_gb]

RamAccepted(deal) ==
    /\ deal.ddr_version = 5
    /\ deal.capacity_gb \in VALID_CAPACITIES
    /\ check_ram_price(deal)

\* key = (-savings, -speed_mhz)
RamKey(d) == [k1 |-> d.savings, k2 |-> d.speed_mhz, item |-> d]

filter_ram_deals(deals) ==
    LET kept == SelectSeq(deals, RamAccepted)
    IN Items(SortKeyed([i \in 1..Len(kept) |-> RamKey(kept[i])]))

\* lookup_ram_prices: an Amazon deal is its own reference (savings 0).
lookup_ram_price(deal) ==
    IF deal.retailer = "Amazon"
    THEN [deal EXCEPT !.amazon_price = deal.price, !.savings = 0]
    ELSE [deal EXCEPT !.savings = deal.amazon_price - deal.price]

filtered_ram ==
    filter_ram_deals([i \in 1..Len(all_ram_deals) |-> lookup_ram_price(all_ram_deals[i])])

(***************************************************************************)
(* The listings the retailers' sites can show.  A page is the sequence of  *)
(* raw listings a scraper extracts in one successful attempt.              *)
(***************************************************************************)
NeweggComboUrl ==
    <<"https://www.", "newegg.com", "/Product/ComboDealDetails", "?ItemList=Combo.1">>

\* An Amazon search result: the href carries the ASIN and a volatile tail.
AmazonUrl(c, tail) ==
    <<"https://www.", "amazon.com", "/Title", "/dp/">> \o Asin(c) \o <<"/ref=sr", tail>>

NeweggRamUrl == <<"https://www.", "newegg.com", "/p/", "N82E16820">>

Ram32 == [ddr |-> 5, capacity_gb |-> 32, speed_mhz |-> 6000]
Ram32NoDdr == [capacity_gb |-> 32, speed_mhz |-> 6000]
Ram64 == [ddr |-> 5, capacity_gb |-> 64, speed_mhz |-> 6000]

Bundle(url, price, ramspecs, stock) ==
    [url |-> url, price |-> price, in_stock |-> stock,
     components |-> <<Component("cpu", NoSpecs, 400),
                      Component("motherboard", NoSpecs, 250),
                      Component("ram", ramspecs, 300)>>]

\* A single memory kit among the search results: not a combo.
KitOnly(url, price, ramspecs) ==
    [url |-> url, price |-> price, in_stock |-> TRUE,
     components |-> <<Component("ram", ramspecs, 600)>>]

RAMDeal(retailer, url, capacity_gb, price, amazon_price) ==
    [retailer |-> retailer, capacity_gb |-> capacity_gb, speed_mhz |-> 6000,
     ddr_version |-> 5, price |-> price, amazon_price |-> amazon_price,
     savings |-> 0, url |-> url]

Scrapers == <<"NeweggScraper", "AmazonScraper">>

RamScrapers == <<"AmazonRAMScraper">>

\* main: scraper_results[f"RAM-{name}"]
RamKeyOf(name) ==
    IF name = "AmazonRAMScraper" THEN "RAM-AmazonRAMScraper" ELSE "RAM-NeweggRAMScraper"

ResultKeys == {Scrapers[i] : i \in 1..Len(Scrapers)}
                \cup {RamKeyOf(RamScrapers[i]) : i \in 1..Len(RamScrapers)}

Pages(name) ==
    IF name = "NeweggScraper"
    THEN { <<>>,
           <<Bundle(NeweggComboUrl, 800, Ram32NoDdr, TRUE)>>,
           <<Bundle(NeweggComboUrl, 800, Ram32NoDdr, FALSE)>>,
           <<KitOnly(NeweggComboUrl, 600, Ram64)>> }
    ELSE { <<>>,
           <<Bundle(AmazonUrl("1", "?qid=1"), 900, Ram32, TRUE)>>,
           <<Bundle(AmazonUrl("1", "?qid=2"), 900, Ram32, TRUE)>>,
           <<Bundle(AmazonUrl("1", "?qid=2"), 900, Ram32, FALSE)>>,
           <<KitOnly(AmazonUrl("2", "?qid=1"), 600, Ram64)>> }

RamPages(name) ==
    IF name = "AmazonRAMScraper"
    THEN { <<>>,
           <<RAMDeal("Amazon", AmazonUrl("9", "?qid=1"), 64, 500, 0)>>,
           <<RAMDeal("Amazon", AmazonUrl("9", "?qid=2"), 64, 700, 0)>> }
    ELSE { <<>>, <<RAMDeal("Newegg", NeweggRamUrl, 64, 600, 640)>> }

scrape(name, page) ==
    IF name = "NeweggScraper" THEN NeweggScraper_scrape(page)
    ELSE AmazonScraper_scrape(page)

(***************************************************************************)
(* BaseScraper.run: bounded retry around one scrape.                       *)
(***************************************************************************)
\* What one attempt does: "ok" the scrape returns; "fail" the scrape raises,
\* or the launch raises after async_playwright().start() has returned;
\* "start_fails" start() itself raises, so that self._playwright is not
\* assigned; "close_raises" _close_browser raises in the finally clause.
AttemptOutcomes == {"ok", "fail", "start_fails", "close_raises"}

retry_backoff == 2

\* _close_browser reads self._playwright, which __init__ does not set: when
\* start() has never returned, the finally clause raises AttributeError.
CloseRaises(attempt, outcomes) ==
    \/ outcomes[attempt] = "close_raises"
    \/ outcomes[attempt] = "start_fails" /\ attempt = 1

\* attempts: the attempts made; waits: the sleeps between them.
RECURSIVE run_from(_, _, _)
run_from(attempt, outcomes, deals) ==
    LET ended(result, found, all_failed) ==
            [result |-> result, deals |-> found, exhausted |-> all_failed,
             attempts |-> attempt,
             waits |-> [k \in 1..(attempt - 1) |-> retry_backoff ^ k]]
    IN IF CloseRaises(attempt, outcomes) THEN ended("raised", <<>>, FALSE)
       ELSE IF outcomes[attempt] = "ok" THEN ended("returned", deals, FALSE)
       ELSE IF attempt < max_retries THEN run_from(attempt + 1, outcomes, deals)
       ELSE ended("returned", <<>>, TRUE)

BaseScraper_run(outcomes, deals) == run_from(1, outcomes, deals)

\* main: the status recorded for a scraper whose run() ended this way
StatusOf(r) == IF r.result = "returned" THEN "ok" ELSE "error"

(***************************************************************************)
(* notifications.py: the seen-set and the three notification functions.    *)
(***************************************************************************)
BatchSize == 10

NumBatches(n) == (n + BatchSize - 1) \div BatchSize

\* What one webhook request does: the response status is 204, it is another
\* status that urlopen returns without raising (200), or urlopen raises.
DispatchOutcomes == {"204", "other", "raise"}

Range(f) == {f[i] : i \in DOMAIN f}


\* A plausible slip: the stored URLs are taken as they are.
load_seen_urls_asis(file) == file

load_seen_urls(file) == {normalize_url(u) : u \in file}

\* A plausible slip: the raw URL is looked up in the normalized seen-set.
IsNewRaw(d, seen) == d.url # <<>> /\ d.url \notin seen

\* "d.url and normalize_url(d.url) not in seen_urls"
IsNew(d, seen) == d.url # <<>> /\ normalize_url(d.url) \notin seen

NewDeals(deals, seen) ==
    LET new(d) == IsNew(d, seen) IN SelectSeq(deals, new)

\* The dispatches a new-deal notification makes before it stops: it stops
\* at the first request that raises and goes on after any response.
Dispatched(outs) ==
    LET raising == {i \in 1..Len(outs) : outs[i] = "raise"}
    IN IF raising = {} THEN outs ELSE SubSeq(outs, 1, MinOf(raising))

\* send_discord_notifications and send_ram_discord_notifications (the two
\* differ in the embed only): the file they leave, given the outcome of
\* each batch.  outs has one entry per batch of new deals.
send_new_notifications(deals, hook, file, outs) ==
    LET seen == load_seen_urls(file)
        new_deals == NewDeals(deals, seen)
        ids == {normalize_url(new_deals[i].url) : i \in 1..Len(new_deals)}
    IN IF ~hook \/ new_deals = <<>>
       THEN [file |-> file, wrote |-> FALSE, sent |-> <<>>, ids |-> {}]
       ELSE IF "raise" \in Range(outs)
       THEN [file |-> file, wrote |-> FALSE, sent |-> Dispatched(outs), ids |-> ids]
       ELSE [file |-> seen \cup ids, wrote |-> TRUE, sent |-> outs, ids |-> ids]

\* The number of batches the call will dispatch.
NewBatches(deals, hook, file) ==
    IF hook THEN NumBatches(Len(NewDeals(deals, load_seen_urls(file)))) ELSE 0

retailer_domain_map ==
    [d \in {"newegg.com", "amazon.com", "microcenter.com", "bhphotovideo.com"} |->
        IF d = "newegg.com" THEN {"NeweggScraper", "RAM-NeweggRAMScraper"}
        ELSE IF d = "amazon.com" THEN {"AmazonScraper", "RAM-AmazonRAMScraper"}
        ELSE IF d = "microcenter.com" THEN {"MicroCenterScraper", "RAM-MicroCenterRAMScraper"}
        ELSE {"BHPhotoScraper", "RAM-BHPhotoRAMScraper"}]

\* A plausible slip: the URLs scraped this run are compared as scraped.
CurrentUrlsRaw(deals, ram_deals) ==
    {deals[i].url : i \in {j \in 1..Len(deals) : deals[j].url # <<>>}}
      \cup {ram_deals[i].url : i \in {j \in 1..Len(ram_deals) : ram_deals[j].url # <<>>}}

\* current_urls: all URLs scraped this run, normalized
CurrentUrls(deals, ram_deals) ==
    {normalize_url(deals[i].url) : i \in {j \in 1..Len(deals) : deals[j].url # <<>>}}
      \cup {normalize_url(ram_deals[i].url) :
               i \in {j \in 1..Len(ram_deals) : ram_deals[j].url # <<>>}}

OosDeals(deals, seen) ==
    LET oos(d) == ~d.in_stock /\ d.url \in seen IN SelectSeq(deals, oos)

DisappearedUrls(deals, ram_deals, seen, results) ==
    LET current_urls == CurrentUrls(deals, ram_deals)
        ok_scrapers == {name \in DOMAIN results : results[name] = "ok"}
    IN {url \in seen :
          /\ url \notin current_urls
          /\ \E domain \in DOMAIN retailer_domain_map :
                /\ Contains(url, domain)
                /\ retailer_domain_map[domain] \cap ok_scrapers # {}}

find_expired_deals(deals, ram_deals, seen, results) ==
    [oos_deals |-> OosDeals(deals, seen),
     disappeared_urls |-> DisappearedUrls(deals, ram_deals, seen, results)]

\* _send_webhook: True only for a 204
_send_webhook(outcome) == outcome = "204"

ExpiredTotal(oos, disappeared) == Len(oos) + Cardinality(disappeared)


\* A plausible slip: the notified URLs stay in the saved seen-set.
send_discord_expired_notifications_keeps(oos, disappeared, hook, file, outs) ==
    LET failing == {i \in 1..Len(outs) : ~_send_webhook(outs[i])}
    IN IF ~hook \/ ExpiredTotal(oos, disappeared) = 0
       THEN [file |-> file, wrote |-> FALSE, sent |-> <<>>]
       ELSE IF failing # {}
       THEN [file |-> file, wrote |-> FALSE, sent |-> SubSeq(outs, 1, MinOf(failing))]
       ELSE [file |-> load_seen_urls(file), wrote |-> TRUE, sent |-> outs]

\* send_discord_expired_notifications: the file it leaves.
send_discord_expired_notifications(oos, disappeared, hook, file, outs) ==
    LET failing == {i \in 1..Len(outs) : ~_send_webhook(outs[i])}
    IN IF ~hook \/ ExpiredTotal(oos, disappeared) = 0
       THEN [file |-> file, wrote |-> FALSE, sent |-> <<>>]
       ELSE IF failing # {}
       THEN [file |-> file, wrote |-> FALSE, sent |-> SubSeq(outs, 1, MinOf(failing))]
       ELSE [file |-> (load_seen_urls(file) \ {oos[i].url : i \in 1..Len(oos)})
                          \ disappeared,
             wrote |-> TRUE, sent |-> outs]

ExpiredBatches(oos, disappeared, hook) ==
    IF hook THEN NumBatches(ExpiredTotal(oos, disappeared)) ELSE 0

(***************************************************************************)
(* main(): one run after the other.                                        *)
(***************************************************************************)
NoneNew == [combo |-> {}, ram |-> {}]

RunStart ==
    /\ pc = "scrape"
    /\ idx = 1
    /\ all_deals = <<>>
    /\ all_ram_deals = <<>>
    /\ scraper_results = [k \in ResultKeys |-> "none"]
    /\ seen_urls = {}
    /\ oos_deals = <<>>
    /\ disappeared_urls = {}
    /\ exhausted = {}
    /\ sent = <<>>
    /\ undelivered = FALSE
    /\ new_ids = NoneNew
    /\ writes = 0

UrlIdle == url_in = <<>> /\ url_key = <<>> /\ upc = "idle"

NoValue == [fn |-> "none"]

FnIdle == arg = NoValue /\ ret = NoValue /\ fpc = "idle"

NoDetails == [u \in {} |-> NoValue]

NoPrices == [n \in {} |-> 0]

\* BaseScraper.__init__: _browser and _context are None, _playwright is not
\* set; 0 stands for None, -1 for the missing attribute, k > 0 for the
\* object created by attempt k.  open: the attempts whose browser is open.
NewScraper ==
    [pc |-> "launch", attempt |-> 1, _playwright |-> -1, _browser |-> 0,
     _context |-> 0, then |-> "none", open |-> {}]

\* A DealCache on an empty cache directory; the scraper of the run model.
CacheIdle ==
    /\ _prices = [n \in {} |-> 0]
    /\ clock = 0
    /\ saves = [price |-> [k \in {} |-> 0], detail |-> [k \in {} |-> 0]]
    /\ runner = NewScraper

\* No AmazonPriceLookup has been created.
LookupIdle ==
    /\ price_cache = NoPrices
    /\ disk_prices = NoPrices
    /\ assigned = <<>>
    /\ searched = <<>>

NeweggIdle ==
    /\ details = NoDetails
    /\ details_file = NoDetails
    /\ fetched = {}
    /\ scrape_log = <<>>
    /\ nscrapes = 0

Init ==
    /\ run = 1
    /\ webhook \in BOOLEAN
    /\ seen_file = {}
    /\ seen_at_start = {}
    /\ delivered = {}
    /\ expired = {}
    /\ RunStart
    /\ UrlIdle
    /\ FnIdle
    /\ NeweggIdle
    /\ LookupIdle
    /\ CacheIdle

\* main, lines 95-105: one iteration of the loop over the combo scrapers
ScrapeCombo ==
    /\ pc = "scrape"
    /\ \E r \in {BaseScraper_run(outcomes, scrape(Scrapers[idx], page)) :
                      page \in Pages(Scrapers[idx]),
                      outcomes \in [1..max_retries -> AttemptOutcomes]} :
          LET name == Scrapers[idx]
          IN /\ r.exhausted => Cardinality(exhausted) < MaxExhausted
             /\ all_deals' = all_deals \o r.deals
             /\ scraper_results' = [scraper_results EXCEPT ![name] = StatusOf(r)]
             /\ exhausted' = IF r.exhausted THEN exhausted \cup {name} ELSE exhausted
    /\ IF idx < Len(Scrapers)
       THEN idx' = idx + 1 /\ pc' = pc
       ELSE idx' = 1 /\ pc' = "scrape_ram"
    /\ UNCHANGED <<run, webhook, seen_file, all_ram_deals, seen_urls, oos_deals,
                   disappeared_urls, sent, undelivered, new_ids, writes,
                   seen_at_start, delivered, expired, auxVars>>

\* main, lines 136-149: one iteration of the loop over the RAM scrapers
ScrapeRam ==
    /\ pc = "scrape_ram"
    /\ \E r \in {BaseScraper_run(outcomes, page) :
                      page \in RamPages(RamScrapers[idx]),
                      outcomes \in [1..max_retries -> AttemptOutcomes]} :
          LET name == RamKeyOf(RamScrapers[idx])
              known == {all_ram_deals[i].url : i \in 1..Len(all_ram_deals)}
          IN /\ r.exhausted => Cardinality(exhausted) < MaxExhausted
             /\ all_ram_deals' = all_ram_deals \o DedupByUrl(r.deals, known)
             /\ scraper_results' = [scraper_results EXCEPT ![name] = StatusOf(r)]
             /\ exhausted' = IF r.exhausted THEN exhausted \cup {name} ELSE exhausted
    /\ IF idx < Len(RamScrapers)
       THEN idx' = idx + 1 /\ pc' = pc
       ELSE idx' = 1 /\ pc' = "notify"
    /\ UNCHANGED <<run, webhook, seen_file, all_deals, seen_urls, oos_deals,
                   disappeared_urls, sent, undelivered, new_ids, writes,
                   seen_at_start, delivered, expired, auxVars>>

AllDelivered(outs) == outs # <<>> /\ Range(outs) = {"204"}

\* main, lines 161-183: seen_urls is loaded, then
\* send_discord_notifications(filtered, webhook)
NotifyCombo ==
    /\ pc = "notify"
    /\ seen_urls' = load_seen_urls(seen_file)
    /\ \E outs \in [1..NewBatches(filtered, webhook, seen_file) -> DispatchOutcomes] :
          LET r == send_new_notifications(filtered, webhook, seen_file, outs)
          IN /\ seen_file' = r.file
             /\ writes' = IF r.wrote THEN writes + 1 ELSE writes
             /\ sent' = r.sent
             /\ undelivered' = (undelivered \/ Range(r.sent) # Range(r.sent) \cap {"204"})
             /\ new_ids' = [new_ids EXCEPT !.combo = r.ids]
             /\ delivered' = IF r.wrote /\ AllDelivered(r.sent)
                             THEN delivered \cup r.ids ELSE delivered
             /\ expired' = IF r.wrote THEN expired \ r.ids ELSE expired
    /\ pc' = "notify_ram"
    /\ UNCHANGED <<run, idx, webhook, all_deals, all_ram_deals, scraper_results,
                   oos_deals, disappeared_urls, exhausted, seen_at_start, auxVars>>

\* main, line 184: send_ram_discord_notifications(filtered_ram, webhook)
NotifyRam ==
    /\ pc = "notify_ram"
    /\ \E outs \in [1..NewBatches(filtered_ram, webhook, seen_file) -> DispatchOutcomes] :
          LET r == send_new_notifications(filtered_ram, webhook, seen_file, outs)
          IN /\ seen_file' = r.file
             /\ writes' = IF r.wrote THEN writes + 1 ELSE writes
             /\ sent' = r.sent
             /\ undelivered' = (undelivered \/ Range(r.sent) # Range(r.sent) \cap {"204"})
             /\ new_ids' = [new_ids EXCEPT !.ram = r.ids]
             /\ delivered' = IF r.wrote /\ AllDelivered(r.sent)
                             THEN delivered \cup r.ids ELSE delivered
             /\ expired' = IF r.wrote THEN expired \ r.ids ELSE expired
    /\ pc' = "find_expired"
    /\ UNCHANGED <<run, idx, webhook, all_deals, all_ram_deals, scraper_results,
                   seen_urls, oos_deals, disappeared_urls, exhausted,
                   seen_at_start, auxVars>>

\* main, lines 189-191
FindExpired ==
    /\ pc = "find_expired"
    /\ LET r == find_expired_deals(all_deals, all_ram_deals, seen_urls, scraper_results)
       IN /\ oos_deals' = r.oos_deals
          /\ disappeared_urls' = r.disappeared_urls
    /\ pc' = "send_expired"
    /\ UNCHANGED <<run, idx, webhook, seen_file, all_deals, all_ram_deals,
                   scraper_results, seen_urls, exhausted, sent, undelivered,
                   new_ids, writes, seen_at_start, delivered, expired, auxVars>>

\* main, lines 192-196
SendExpired ==
    /\ pc = "send_expired"
    /\ \E outs \in [1..ExpiredBatches(oos_deals, disappeared_urls, webhook)
                      -> DispatchOutcomes] :
          LET r == send_discord_expired_notifications(
                       oos_deals, disappeared_urls, webhook, seen_file, outs)
          IN /\ seen_file' = r.file
             /\ writes' = IF r.wrote THEN writes + 1 ELSE writes
             /\ sent' = r.sent
             /\ undelivered' = (undelivered \/ Range(r.sent) # Range(r.sent) \cap {"204"})
             /\ delivered' = IF r.wrote THEN delivered \ (seen_file \ r.file)
                             ELSE delivered
             /\ expired' = IF r.wrote
                           THEN expired \cup {oos_deals[i].url : i \in 1..Len(oos_deals)}
                                        \cup disappeared_urls
                           ELSE expired
    /\ pc' = "done"
    /\ UNCHANGED <<run, idx, webhook, all_deals, all_ram_deals, scraper_results,
                   seen_urls, oos_deals, disappeared_urls, exhausted, new_ids,
                   seen_at_start, auxVars>>

\* The process ends; the next run starts with the file the last one left.
NextRun ==
    /\ pc = "done"
    /\ run < MaxRuns
    /\ run' = run + 1
    /\ seen_at_start' = load_seen_urls(seen_file)
    /\ pc' = "scrape"
    /\ idx' = 1
    /\ all_deals' = <<>>
    /\ all_ram_deals' = <<>>
    /\ scraper_results' = [k \in ResultKeys |-> "none"]
    /\ seen_urls' = {}
    /\ oos_deals' = <<>>
    /\ disappeared_urls' = {}
    /\ exhausted' = {}
    /\ sent' = <<>>
    /\ undelivered' = FALSE
    /\ new_ids' = NoneNew
    /\ writes' = 0
    /\ UNCHANGED <<webhook, seen_file, delivered, expired, auxVars>>

Next ==
    \/ ScrapeCombo
    \/ ScrapeRam
    \/ NotifyCombo
    \/ NotifyRam
    \/ FindExpired
    \/ SendExpired
    \/ NextRun

Spec == Init /\ [][Next]_vars


\* seen_deals.json as earlier runs or an earlier version of the program
\* left it: a canonical Amazon key, an Amazon URL as scraped, a Newegg URL.
PersistedFiles ==
    { {AmazonKey(Asin("1"))}, {AmazonUrl("1", "?qid=1")}, {NeweggComboUrl} }

\* main() started with a seen-set on disk.
InitSeen ==
    /\ run = 1
    /\ webhook \in BOOLEAN
    /\ seen_file \in PersistedFiles
    /\ seen_at_start = load_seen_urls(seen_file)
    /\ delivered = {}
    /\ expired = {}
    /\ RunStart
    /\ UrlIdle
    /\ FnIdle
    /\ NeweggIdle
    /\ LookupIdle
    /\ CacheIdle

SpecSeen == InitSeen /\ [][Next]_vars

(***************************************************************************)
(* normalize_url on its own: one URL in, one key out.                      *)
(***************************************************************************)
LowerAsin == <<"b", "0", "0", "0", "0", "0", "0", "0", "0", "1">>

UrlHeads ==
    { <<"https://www.", "amazon.com">>,
      <<"https://smile.", "amazon.com">>,
      <<"https://www.", "newegg.com">>,
      <<"https://www.", "bhphotovideo.com">> }

UrlSlugs == { <<>>, <<"/Title">> }

UrlProducts ==
    { <<>>,
      <<"/dp/">> \o Asin("1"),
      <<"/dp/">> \o Asin("2"),
      <<"/dp/">> \o LowerAsin,
      <<"/dp/">> \o SubSeq(Asin("1"), 1, AsinLen - 1),
      <<"/dp/">> \o Asin("1") \o <<"9">>,
      <<"/gp/product/">> \o Asin("1") }

UrlTails ==
    { <<>>,
      <<"/ref=sr", "?qid=1">>,
      <<"/ref=sr", "?qid=2">>,
      <<"?u=", "https://www.", "amazon.com", "/dp/">> \o Asin("2") }

UrlInputs ==
    {h \o s \o p \o t : h \in UrlHeads, s \in UrlSlugs, p \in UrlProducts, t \in UrlTails}

RunIdle ==
    /\ run = 0
    /\ webhook = FALSE
    /\ seen_file = {}
    /\ seen_at_start = {}
    /\ delivered = {}
    /\ expired = {}
    /\ RunStart

InitUrl ==
    /\ url_in \in UrlInputs
    /\ url_key = <<>>
    /\ upc = "input"
    /\ RunIdle
    /\ FnIdle
    /\ NeweggIdle
    /\ LookupIdle
    /\ CacheIdle

Normalize ==
    /\ upc = "input"
    /\ url_key' = normalize_url(url_in)
    /\ upc' = "done"
    /\ UNCHANGED <<url_in, runVars, fnVars, neweggVars, lookupVars, cacheVars, runner>>

NextUrl == Normalize

SpecUrl == InitUrl /\ [][NextUrl]_vars

(***************************************************************************)
(* Vocabulary of the properties.                                           *)
(***************************************************************************)
\* Canonical identities of the listings a scraper can return.
ListedBy(key) ==
    IF key = "RAM-AmazonRAMScraper"
    THEN UNION {{normalize_url(p[i].url) : i \in 1..Len(p)} : p \in RamPages("AmazonRAMScraper")}
    ELSE UNION {{normalize_url(p[i].url) : i \in 1..Len(p)} : p \in Pages(key)}

\* The source a canonical identity belongs to.
OwnerOf(u) == CHOOSE key \in ResultKeys : u \in ListedBy(key)

\* Canonical identities of everything scraped in the run, filtered or not.
ScrapedIds ==
    {normalize_url(all_deals[i].url) : i \in 1..Len(all_deals)}
        \cup {normalize_url(all_ram_deals[i].url) : i \in 1..Len(all_ram_deals)}

\* Canonical identities a source contributed to the run.
ContributedBy(key) == {u \in ScrapedIds : OwnerOf(u) = key}

Reconciled == pc \in {"send_expired", "done"}

\* C1: after find_expired_deals, every identity it reports as disappeared
\* belongs to a source whose status in the run is "ok", combo and RAM
\* scrapers of one retailer being separate sources.
C1_DisappearedOnlyIfOwnerOk ==
    Reconciled => \A u \in disappeared_urls : scraper_results[OwnerOf(u)] = "ok"

\* C2: a source whose scrape attempts all failed is recorded with status
\* "error" and contributes no deals, every other source is still scraped,
\* and none of its seen identities is reported disappeared or removed.
C2_ExhaustedSourceIsError ==
    pc = "done" =>
        \A key \in exhausted :
            /\ scraper_results[key] = "error"
            /\ ContributedBy(key) = {}
            /\ \A other \in ResultKeys : scraper_results[other] # "none"
            /\ \A u \in seen_at_start :
                   OwnerOf(u) = key => u \notin disappeared_urls /\ u \in seen_file

\* Some dispatch of a call raised or was answered with a status other than 204.
NotDelivered(outs) == \E i \in 1..Len(outs) : outs[i] # "204"

\* C3: a new-deal notification call (combo or RAM) one of whose dispatches
\* raises or is answered with a status other than 204 leaves the persisted
\* seen-set as it was.
C3_UndeliveredKeepsSeenFile ==
    [][(pc \in {"notify", "notify_ram"} /\ NotDelivered(sent')) => seen_file' = seen_file]_vars

\* C4: an identity that a fully delivered new-deal notification has carried,
\* and that has not been removed as expired since, is in no later new-deal
\* notification, whatever query parameters its Amazon URL is scraped with.
C4_DeliveredNotNotifiedAgain ==
    [][/\ pc = "notify" => new_ids'.combo \cap delivered = {}
       /\ pc = "notify_ram" => new_ids'.ram \cap delivered = {}]_vars

\* A later run scrapes a delivered Amazon deal under other query parameters,
\* the deal passes the filters, and the combo notification leaves it out.
C4_Witness ==
    /\ run = 2
    /\ pc = "notify_ram"
    /\ webhook
    /\ AmazonKey(Asin("1")) \in delivered
    /\ AmazonKey(Asin("1")) \notin new_ids.combo
    /\ \E i \in 1..Len(filtered) :
           /\ filtered[i].url = AmazonUrl("1", "?qid=2")
           /\ filtered[i].url \notin seen_urls
           /\ normalize_url(filtered[i].url) \in seen_urls

\* Identities of scraped out-of-stock deals that were seen when the run began.
SeenOutOfStock ==
    {normalize_url(all_deals[i].url) : i \in {j \in 1..Len(all_deals) : ~all_deals[j].in_stock}}
        \cap seen_at_start

\* C5: when a run with a webhook ends and every dispatch of it succeeded,
\* the persisted seen-set is the set at the start plus the new identities
\* notified, minus the disappeared ones, minus the identities of seen deals
\* scraped out of stock.
C5_SeenFileAtEndOfRun ==
    (pc = "done" /\ webhook /\ ~undelivered) =>
        seen_file = ((seen_at_start \cup new_ids.combo \cup new_ids.ram)
                        \ disappeared_urls) \ SeenOutOfStock

\* C6: the seen-set is written at most once in a run, and what is persisted
\* differs from the set at the start of the run only once the run has ended
\* with all its notifications delivered.
C6_SingleWritePerRun ==
    /\ writes <= 1
    /\ seen_file # seen_at_start => (pc = "done" /\ ~undelivered)

\* C7: every scraped out-of-stock deal whose identity is in the seen-set is
\* returned as out of stock and is not reported disappeared, a deal returned
\* as out of stock has its identity in the seen-set, and after a delivered
\* expiry notification those identities are no longer persisted.
C7_OutOfStockSeenDeals ==
    Reconciled =>
        /\ \A i \in 1..Len(all_deals) :
               (~all_deals[i].in_stock /\ normalize_url(all_deals[i].url) \in seen_urls)
                   => /\ \E j \in 1..Len(oos_deals) : oos_deals[j] = all_deals[i]
                      /\ normalize_url(all_deals[i].url) \notin disappeared_urls
                      /\ (pc = "done" /\ webhook /\ ~undelivered)
                             => normalize_url(all_deals[i].url) \notin seen_file
        /\ \A j \in 1..Len(oos_deals) :
               /\ ~oos_deals[j].in_stock
               /\ normalize_url(oos_deals[j].url) \in seen_urls

\* C8: for a seen identity whose source is "ok", find_expired_deals reports
\* it disappeared exactly when no deal scraped in the run, combo or RAM,
\* filtered out or not, has that canonical identity.
C8_DisappearedIffAbsent ==
    Reconciled =>
        \A u \in seen_urls :
            scraper_results[OwnerOf(u)] = "ok"
                => (u \in disappeared_urls <=> u \notin ScrapedIds)

\* One seen identity is gone from an "ok" source and reported, another is
\* still listed by a RAM deal the price limits reject and is not reported.
C8_Witness ==
    /\ pc = "send_expired"
    /\ \E u \in disappeared_urls : scraper_results[OwnerOf(u)] = "ok"
    /\ \E i \in 1..Len(all_ram_deals) :
           /\ normalize_url(all_ram_deals[i].url) \in seen_urls \ disappeared_urls
           /\ all_ram_deals[i].url # normalize_url(all_ram_deals[i].url)
           /\ filtered_ram = <<>>

\* C9: no deal in the output of filter_deals has combo type OTHER.
C9_NoOtherAfterFilter ==
    \A i \in 1..Len(filtered) : filtered[i].combo_type # "OTHER"

(***************************************************************************)
(* What a URL is, read off its parts.                                      *)
(***************************************************************************)
\* The host is the token after the scheme.
IsAmazonHost(url) == Len(url) >= 2 /\ url[2] = "amazon.com"

IsQueryToken(tok) == tok \in {"?qid=1", "?qid=2", "?u="}

\* The URL up to its query string.
PathLen(url) ==
    LET qs == {i \in 1..Len(url) : IsQueryToken(url[i])}
    IN IF qs = {} THEN Len(url) ELSE MinOf(qs) - 1

IsChar(tok) == tok \in AsinChars \cup {"b"}

\* The characters of the path segment that starts after position i.
RECURSIVE SegmentFrom(_, _)
SegmentFrom(url, i) ==
    IF i < PathLen(url) /\ IsChar(url[i + 1])
    THEN <<url[i + 1]>> \o SegmentFrom(url, i + 1)
    ELSE <<>>

\* The ASINs of the URL: path segments after /dp/ made of exactly AsinLen
\* characters of the class.
PathAsins(url) ==
    {seg \in {SegmentFrom(url, i) : i \in {j \in 1..PathLen(url) : url[j] = "/dp/"}} :
        Len(seg) = AsinLen /\ \A k \in 1..Len(seg) : seg[k] \in AsinChars}

\* C10: an Amazon URL with a /dp/ASIN path segment is mapped to the key of
\* that ASIN, whatever its slug and query, and every other URL, a non-Amazon
\* one or an Amazon one without such a segment, is returned unchanged.
C10_NormalizeUrl ==
    upc = "done" =>
        IF IsAmazonHost(url_in) /\ PathAsins(url_in) # {}
        THEN \E a \in PathAsins(url_in) : url_key = AmazonKey(a)
        ELSE url_key = url_in

(***************************************************************************)
(* Functions on their own: one argument in, one result out.                *)
(***************************************************************************)
\* What cache/seen_deals.json can hold when load_seen_urls opens it.
SeenFileUrls == {NeweggComboUrl, AmazonUrl("1", "?qid=1"), AmazonKey(Asin("1"))}

\* The elements of a JSON list: strings and values that are not strings.
JsonItems ==
    {[t |-> "str", v |-> u] : u \in SeenFileUrls}
        \cup {[t |-> k, v |-> <<>>] : k \in {"num", "null", "list"}}

MaxItems == 2

JsonLists == UNION {[1..n -> JsonItems] : n \in 0..MaxItems}

\* kind: the file is missing, open() raises OSError, the bytes are not
\* UTF-8, the text is not JSON, or the JSON value is null, a number, a
\* string (items: its characters), an object (items: its keys) or a list.
SeenFileContents ==
    {[kind |-> k, items |-> <<>>] :
        k \in {"missing", "oserror", "bad_utf8", "bad_json", "null", "number"}}
      \cup {[kind |-> "string", items |-> <<[t |-> "str", v |-> <<"a">>],
                                            [t |-> "str", v |-> <<"b">>]>>]}
      \cup {[kind |-> "object", items |-> <<[t |-> "str", v |-> u]>>] : u \in SeenFileUrls}
      \cup {[kind |-> "list", items |-> l] : l \in JsonLists}

Returned(fn, value) == [fn |-> fn, raised |-> FALSE, value |-> value]

Raised(fn, exception) == [fn |-> fn, raised |-> TRUE, value |-> exception]

\* load_seen_urls on any content of the file.  Only JSONDecodeError and
\* OSError are caught; iterating a value that is not iterable and passing a
\* non-string to normalize_url raise TypeError.
load_seen_urls_from(content) ==
    LET fn == "load_seen_urls"
        strings == {i \in 1..Len(content.items) : content.items[i].t = "str"}
    IN IF content.kind \in {"missing", "oserror", "bad_json"} THEN Returned(fn, {})
       ELSE IF content.kind = "bad_utf8" THEN Raised(fn, "UnicodeDecodeError")
       ELSE IF content.kind \in {"null", "number"} THEN Raised(fn, "TypeError")
       ELSE IF strings # 1..Len(content.items) THEN Raised(fn, "TypeError")
       ELSE Returned(fn, load_seen_urls({content.items[i].v : i \in strings}))

(***************************************************************************)
(* NeweggScraper.scrape, phase 2: detail enrichment and the detail cache.  *)
(***************************************************************************)
MaxScrapes == 3

DetailPagePrice == 790

NeweggComboUrl2 ==
    <<"https://www.", "newegg.com", "/Product/ComboDealDetails", "?ItemList=Combo.2">>

NeweggDetailUrls == {NeweggComboUrl, NeweggComboUrl2}

\* Python's None where a ComboDeal is expected.
NoDeal == [retailer |-> "None"]

SpecOr0(specs, key) == IF key \in DOMAIN specs THEN specs[key] ELSE 0

\* The checks on the CPU name (_looks_like_cpu_sku, _detect_category) are
\* left out: component names are not modelled.
_needs_detail_enrichment(deal) ==
    LET categories == {deal.components[i].category : i \in 1..Len(deal.components)}
        ram == get_component(deal, "ram")
    IN IF ~Contains(deal.url, "/Product/ComboDealDetails") THEN FALSE
       ELSE \/ Cardinality(categories \ {"unknown"}) < 3
            \/ ram = NoComponent
            \/ SpecOr0(ram.specs, "capacity_gb") <= 0
            \/ SpecOr0(ram.specs, "speed_mhz") <= 0

\* Search-page listings: a combo whose RAM is named by SKU only, a combo of
\* two parts, a complete combo and a single memory kit.
NeweggListings ==
    [sku_ram |-> [url |-> NeweggComboUrl, price |-> 800,
                  components |-> <<Component("cpu", NoSpecs, 0),
                                   Component("motherboard", NoSpecs, 0),
                                   Component("ram", NoSpecs, 0)>>],
     two_parts |-> [url |-> NeweggComboUrl2, price |-> 700,
                    components |-> <<Component("cpu", NoSpecs, 0),
                                     Component("motherboard", NoSpecs, 0)>>],
     complete |-> [url |-> NeweggComboUrl2, price |-> 900,
                   components |-> <<Component("cpu", NoSpecs, 0),
                                    Component("motherboard", NoSpecs, 0),
                                    Component("ram", Ram32, 0)>>],
     kit |-> [url |-> NeweggComboUrl2, price |-> 600,
              components |-> <<Component("ram", Ram64, 0)>>]]

\* all_raw_items after phase 1 (one entry per URL).
NeweggPages ==
    LET l == NeweggListings
    IN { <<>>, <<l.sku_ram>>, <<l.two_parts>>, <<l.sku_ram, l.two_parts>>,
         <<l.sku_ram, l.complete>>, <<l.kit>> }

\* What a detail page shows: the components found on it.  <<>> stands for
\* a page that cannot be loaded or on which no product name is found.
DetailPages ==
    { <<>>,
      <<Component("cpu", NoSpecs, 0), Component("motherboard", NoSpecs, 0),
        Component("ram", Ram32, 0)>>,
      <<Component("ram", Ram64, 0)>> }

_scrape_combo_detail(url, found) ==
    IF found = <<>> THEN NoDeal
    ELSE parse_combo_item([url |-> url, price |-> DetailPagePrice, components |-> found])

_serialize_deal(deal) ==
    [components |-> [i \in 1..Len(deal.components) |->
                        Component(deal.components[i].category,
                                  deal.components[i].specs, 0)],
     combo_type |-> deal.combo_type]

_rebuild_deal_from_cache(cached, combo_price, url) ==
    IF cached.components = <<>> THEN NoDeal
    ELSE [retailer |-> "Newegg",
          combo_type |-> cached.combo_type,
          components |-> cached.components,
          combo_price |-> combo_price,
          individual_total |-> 0,
          savings |-> 0,
          url |-> url,
          cpu_sc_score |-> 0,
          in_stock |-> TRUE]

\* A plausible slip: any deal the detail step yields replaces the parsed one.
ReplacesAny(detail_deal) == detail_deal # NoDeal

\* "if detail_deal and detail_deal.combo_type != "OTHER""
Replaces(detail_deal) == detail_deal # NoDeal /\ detail_deal.combo_type # "OTHER"

\* One iteration of the phase-2 loop: the cache it leaves and what it did.
\* source: "skipped" parsed as OTHER, "none" no enrichment needed, "cache"
\* rebuilt from the detail cache, "fetch" detail page visited.
ScrapeItem(raw, cache, found) ==
    LET deal == parse_combo_item(raw)
        entry(source, detail, out) ==
            [url |-> deal.url, initial |-> deal, source |-> source,
             detail |-> detail,
             out |-> IF out.combo_type # "OTHER" THEN out ELSE NoDeal]
    IN IF deal.combo_type = "OTHER"
       THEN [cache |-> cache,
             entry |-> [url |-> deal.url, initial |-> deal, source |-> "skipped",
                        detail |-> NoDeal, out |-> NoDeal]]
       ELSE IF ~_needs_detail_enrichment(deal)
       THEN [cache |-> cache, entry |-> entry("none", NoDeal, deal)]
       ELSE IF deal.url \in DOMAIN cache
       THEN LET detail_deal ==
                    _rebuild_deal_from_cache(cache[deal.url], deal.combo_price, deal.url)
            IN [cache |-> cache,
                entry |-> entry("cache", detail_deal,
                                IF Replaces(detail_deal) THEN detail_deal ELSE deal)]
       ELSE LET detail_deal == _scrape_combo_detail(deal.url, found[deal.url])
            IN IF Replaces(detail_deal)
               THEN [cache |-> (deal.url :> _serialize_deal(detail_deal)) @@ cache,
                     entry |-> entry("fetch", detail_deal, detail_deal)]
               ELSE [cache |-> cache, entry |-> entry("fetch", detail_deal, deal)]

\* The phase-2 loop over all_raw_items.
RECURSIVE ScrapeItems(_, _, _)
ScrapeItems(raws, cache, found) ==
    IF raws = <<>> THEN [cache |-> cache, log |-> <<>>]
    ELSE LET first == ScrapeItem(Head(raws), cache, found)
             rest == ScrapeItems(Tail(raws), first.cache, found)
         IN [cache |-> rest.cache, log |-> <<first.entry>> \o rest.log]

\* The deals the latest scrape returned.
ScrapedDeals ==
    LET kept(e) == e.out # NoDeal
        log == SelectSeq(scrape_log, kept)
    IN [i \in 1..Len(log) |-> log[i].out]

\* NeweggScraper.scrape on the listings of one search and the detail pages
\* as they are at that time.
NeweggScrape ==
    /\ fpc = "NeweggScraper.scrape"
    /\ nscrapes < MaxScrapes
    /\ \E raws \in NeweggPages, found \in [NeweggDetailUrls -> DetailPages] :
          LET r == ScrapeItems(raws, details, found)
          IN /\ details' = r.cache
             /\ scrape_log' = r.log
             /\ fetched' = fetched \cup
                    {r.log[i].url : i \in {j \in 1..Len(r.log) : r.log[j].source = "fetch"}}
    /\ nscrapes' = nscrapes + 1
    /\ UNCHANGED <<details_file, fnVars, runVars, urlVars, lookupVars, cacheVars, runner>>

\* main, line 202, and DealCache._load of the next run.
NeweggNextRun ==
    /\ fpc = "NeweggScraper.scrape"
    /\ details # details_file
    /\ details_file' = details
    /\ UNCHANGED <<details, fetched, scrape_log, nscrapes, fnVars, runVars, urlVars, lookupVars, cacheVars, runner>>

\* The run ends on an exception before line 202; the next run loads the file.
NeweggAbortRun ==
    /\ fpc = "NeweggScraper.scrape"
    /\ details # details_file
    /\ details' = details_file
    /\ UNCHANGED <<details_file, fetched, scrape_log, nscrapes, fnVars, runVars, urlVars, lookupVars, cacheVars, runner>>

(***************************************************************************)
(* AmazonPriceLookup: lookup_prices and lookup_ram_prices on one instance. *)
(***************************************************************************)
Named(name, category, specs, price) ==
    [name |-> name, category |-> category, specs |-> specs,
     individual_price |-> price]

NamedCombo(price, components) ==
    [retailer |-> "Newegg",
     combo_type |-> _detect_combo_type(components),
     components |-> components,
     combo_price |-> price,
     individual_total |-> 0,
     savings |-> 0,
     url |-> NeweggComboUrl,
     cpu_sc_score |-> 0,
     in_stock |-> TRUE]

NamedRam(retailer, name, price) ==
    [retailer |-> retailer, name |-> name, capacity_gb |-> 64, speed_mhz |-> 6000,
     ddr_version |-> 5, price |-> price, amazon_price |-> 0, savings |-> 0,
     url |-> NeweggRamUrl]

\* The instance as the two methods see it.
Instance == [cache |-> price_cache, disk |-> disk_prices,
             assigned |-> assigned, searched |-> searched]

\* A plausible slip: the in-memory cache is not consulted.
InMemoryNever(cache, name) == FALSE

\* "component.name in self._cache", "deal.name in self._cache"
InMemory(cache, name) == name \in DOMAIN cache

\* "self._cache[name] = price"
Assign(self, name, price) ==
    [self EXCEPT !.cache = (name :> price) @@ self.cache,
                 !.assigned = Append(@, name)]

\* lookup_prices, phase 1, from component j of deal i on.
\* st: the deals as priced so far, the instance and needs_lookup (names).
RECURSIVE ResolveCached(_, _, _)
ResolveCached(i, j, st) ==
    IF i > Len(st.deals) THEN st
    ELSE IF j > Len(st.deals[i].components) THEN ResolveCached(i + 1, 1, st)
    ELSE LET c == st.deals[i].components[j]
             priced(p) == [st EXCEPT !.deals[i].components[j].individual_price = p]
         IN IF c.individual_price > 0 THEN ResolveCached(i, j + 1, st)
            ELSE IF c.category = "unknown" THEN ResolveCached(i, j + 1, st)
            ELSE IF InMemory(st.self.cache, c.name)
            THEN ResolveCached(i, j + 1, priced(st.self.cache[c.name]))
            ELSE IF c.name \in DOMAIN st.self.disk
            THEN LET cached_price == st.self.disk[c.name]
                 IN ResolveCached(i, j + 1,
                        [priced(cached_price) EXCEPT
                            !.self = Assign(st.self, c.name, cached_price)])
            ELSE ResolveCached(i, j + 1, [st EXCEPT !.needs = Append(@, c.name)])

\* The first occurrence of every name (unique_names, deduplicated).
RECURSIVE Deduplicate(_, _)
Deduplicate(names, unique_names) ==
    IF names = <<>> THEN <<>>
    ELSE IF Head(names) \in unique_names THEN Deduplicate(Tail(names), unique_names)
    ELSE <<Head(names)>> \o Deduplicate(Tail(names), unique_names \cup {Head(names)})

\* The browser loop: one _search_price per name; found[name] is what the
\* search yields (0 when it fails), kept in memory and in the disk cache.
RECURSIVE SearchAll(_, _, _)
SearchAll(names, self, found) ==
    IF names = <<>> THEN self
    ELSE LET name == Head(names)
             price == found[name]
             after == Assign([self EXCEPT !.searched = Append(@, name)], name, price)
         IN SearchAll(Tail(names),
                      [after EXCEPT !.disk = (name :> price) @@ after.disk], found)

\* "Apply looked-up prices to all components (including duplicates)"
ApplyPrices(deals, cache) ==
    [i \in 1..Len(deals) |->
        [deals[i] EXCEPT !.components =
            [j \in 1..Len(deals[i].components) |->
                LET c == deals[i].components[j]
                IN IF c.individual_price <= 0 /\ c.name \in DOMAIN cache
                   THEN [c EXCEPT !.individual_price = cache[c.name]]
                   ELSE c]]]

SavingsOfAll(deals) == [i \in 1..Len(deals) |-> calculate_savings(deals[i])]

\* A plausible slip: the path without Playwright returns the deals as they are.
LookupSkippedAsIs(deals) == deals

\* The ImportError path of lookup_prices.
LookupSkipped(deals) == SavingsOfAll(deals)

lookup_prices(deals, self, playwright, found) ==
    LET p1 == ResolveCached(1, 1, [deals |-> deals, self |-> self, needs |-> <<>>])
    IN IF p1.needs = <<>>
       THEN [deals |-> SavingsOfAll(p1.deals), self |-> p1.self]
       ELSE IF ~playwright
       THEN [deals |-> LookupSkipped(p1.deals), self |-> p1.self]
       ELSE LET self2 == SearchAll(Deduplicate(p1.needs, {}), p1.self, found)
            IN [deals |-> SavingsOfAll(ApplyPrices(p1.deals, self2.cache)),
                self |-> self2]

\* lookup_ram_prices, phase 1, from deal i on.
RECURSIVE ResolveCachedRam(_, _)
ResolveCachedRam(i, st) ==
    IF i > Len(st.deals) THEN st
    ELSE LET deal == st.deals[i]
             priced(p) == [st EXCEPT !.deals[i].amazon_price = p,
                                     !.deals[i].savings = p - deal.price]
         IN IF deal.retailer = "Amazon"
            THEN ResolveCachedRam(i + 1,
                    [st EXCEPT !.deals[i].amazon_price = deal.price,
                               !.deals[i].savings = 0])
            ELSE IF InMemory(st.self.cache, deal.name)
            THEN ResolveCachedRam(i + 1, priced(st.self.cache[deal.name]))
            ELSE IF deal.name \in DOMAIN st.self.disk
            THEN LET cached_price == st.self.disk[deal.name]
                 IN ResolveCachedRam(i + 1,
                        [priced(cached_price) EXCEPT
                            !.self = Assign(st.self, deal.name, cached_price)])
            ELSE ResolveCachedRam(i + 1,
                    [st EXCEPT !.needs = Append(@, deal.name),
                               !.pending = @ \cup {i}])

\* "Apply to all deals (including duplicates)": the deals in needs_lookup.
ApplyRamPrices(deals, pending, cache) ==
    [i \in 1..Len(deals) |->
        IF i \in pending /\ deals[i].name \in DOMAIN cache
        THEN [deals[i] EXCEPT !.amazon_price = cache[deals[i].name],
                              !.savings = cache[deals[i].name] - deals[i].price]
        ELSE deals[i]]

lookup_ram_prices(deals, self, playwright, found) ==
    LET p1 == ResolveCachedRam(1, [deals |-> deals, self |-> self,
                                   needs |-> <<>>, pending |-> {}])
    IN IF p1.needs = <<>> \/ ~playwright
       THEN [deals |-> p1.deals, self |-> p1.self]
       ELSE LET self2 == SearchAll(Deduplicate(p1.needs, {}), p1.self, found)
            IN [deals |-> ApplyRamPrices(p1.deals, p1.pending, self2.cache),
                self |-> self2]

\* The parts on sale and what a search for each yields: its price, or 0
\* when the search fails.
PartPrices == [cpu7 |-> 400, board |-> 250, kit32 |-> 300, kit64 |-> 620, cable |-> 10]

SearchResults == {PartPrices, [PartPrices EXCEPT !.kit32 = 0]}

\* What the disk cache holds, not expired, when the instance is created.
DiskPrices == {NoPrices, [kit32 |-> 310], [cpu7 |-> 390, board |-> 240, kit32 |-> 310]}

LookupDeals ==
    LET cpu(p) == Named("cpu7", "cpu", NoSpecs, p)
        mb(p) == Named("board", "motherboard", NoSpecs, p)
        ram(p) == Named("kit32", "ram", Ram32, p)
        extra == Named("cable", "unknown", NoSpecs, 0)
    IN { <<>>,
         <<NamedCombo(800, <<cpu(0), mb(0), ram(0)>>)>>,
         <<NamedCombo(800, <<cpu(0), mb(0), ram(0)>>),
           NamedCombo(700, <<cpu(0), ram(0), extra>>)>>,
         <<NamedCombo(900, <<cpu(410), mb(260), ram(320)>>)>>,
         <<NamedCombo(700, <<cpu(0), ram(320), extra>>)>> }

LookupRamDeals ==
    { <<>>,
      <<NamedRam("Newegg", "kit32", 280)>>,
      <<NamedRam("Amazon", "kit64", 600), NamedRam("Newegg", "kit64", 550)>>,
      <<NamedRam("Newegg", "kit32", 280), NamedRam("Newegg", "kit32", 290)>> }

LookupInputs ==
    [deals : LookupDeals, ram_deals : LookupRamDeals,
     playwright : BOOLEAN, found : SearchResults]

\* main, line 115
CallLookupPrices ==
    /\ fpc = "lookup_prices"
    /\ LET r == lookup_prices(arg.deals, Instance, arg.playwright, arg.found)
       IN /\ ret' = Returned("lookup_prices", r.deals)
          /\ price_cache' = r.self.cache
          /\ disk_prices' = r.self.disk
          /\ assigned' = r.self.assigned
          /\ searched' = r.self.searched
    /\ fpc' = "main.filter_deals"
    /\ UNCHANGED <<arg, runVars, urlVars, neweggVars, cacheVars, runner>>

\* main, line 118: filter_deals on what lookup_prices returned.
MainFilterDeals ==
    /\ fpc = "main.filter_deals"
    /\ ret' = Returned("main.filter_deals", filter_deals(ret.value))
    /\ fpc' = "lookup_ram_prices"
    /\ UNCHANGED <<arg, runVars, urlVars, neweggVars, lookupVars, cacheVars, runner>>

\* main, line 154
CallLookupRamPrices ==
    /\ fpc = "lookup_ram_prices"
    /\ LET r == lookup_ram_prices(arg.ram_deals, Instance, arg.playwright, arg.found)
       IN /\ ret' = Returned("lookup_ram_prices", r.deals)
          /\ price_cache' = r.self.cache
          /\ disk_prices' = r.self.disk
          /\ assigned' = r.self.assigned
          /\ searched' = r.self.searched
    /\ fpc' = "done"
    /\ UNCHANGED <<arg, runVars, urlVars, neweggVars, cacheVars, runner>>

(***************************************************************************)
(* The assemblers on one raw listing, filter_deals on one list of deals.   *)
(***************************************************************************)
MaxParts == 3

Categories == {"cpu", "motherboard", "ram", "unknown"}

Ram16 == [ddr |-> 5, capacity_gb |-> 16, speed_mhz |-> 6000]

\* A part of a listing as the extractors tag it; a memory kit's name gives
\* its specs.
RawPart(category, ramspecs) ==
    Component(category, IF category = "ram" THEN ramspecs ELSE NoSpecs, 0)

\* The titles split into up to MaxParts parts; the first kit named is a
\* 16 GB one, the others 32 GB.
RawParts ==
    LET kit(cats, i) ==
            IF \E k \in 1..(i - 1) : cats[k] = "ram" THEN Ram32 ELSE Ram16
    IN UNION {{[i \in 1..n |-> RawPart(cats[i], kit(cats, i))] :
                  cats \in [1..n -> Categories]} : n \in 0..MaxParts}

RawListings ==
    {[url |-> AmazonUrl("1", "?qid=1"), price |-> 800, components |-> parts] :
        parts \in RawParts}

parse_bundle_item(raw) == ParseListing("MicroCenter", raw, 0)

\* MicroCenterScraper._parse_bundle_from_link
_parse_bundle_from_link(raw) ==
    IF raw.price <= 0 \/ raw.components = <<>> THEN NoDeal
    ELSE ParseListing("MicroCenter", raw, 0)

Assemblers ==
    {"parse_combo_item", "parse_amazon_result", "parse_bundle_item",
     "_parse_bundle_from_link"}

Assemble(assembler, raw) ==
    IF assembler = "parse_combo_item" THEN parse_combo_item(raw)
    ELSE IF assembler = "parse_amazon_result" THEN parse_amazon_result(raw)
    ELSE IF assembler = "parse_bundle_item" THEN parse_bundle_item(raw)
    ELSE _parse_bundle_from_link(raw)

ParseInputs == [assembler : Assemblers, raw : RawListings]

CallParse ==
    /\ fpc = "parse"
    /\ ret' = Returned(arg.assembler, Assemble(arg.assembler, arg.raw))
    /\ fpc' = "done"
    /\ UNCHANGED <<arg, runVars, urlVars, neweggVars, lookupVars, cacheVars, runner>>

MaxDeals == 3

\* A deal as it reaches filter_deals: parsed, enriched with a benchmark
\* score (0 when the CPU has none) and priced.
FilterDeal(stock, rams, price, cpu_price, score) ==
    LET raw == [url |-> AmazonUrl("1", "?qid=1"), price |-> price,
                components |-> <<Component("cpu", NoSpecs, cpu_price),
                                 Component("motherboard", NoSpecs, 250)>>
                               \o [i \in 1..Len(rams) |-> Component("ram", rams[i], 300)]]
        deal == calculate_savings(parse_amazon_result(raw))
    IN [deal EXCEPT !.in_stock = stock, !.cpu_sc_score = score]

FilterDeals ==
    { FilterDeal(TRUE, <<Ram32>>, 800, 400, 0),
      FilterDeal(TRUE, <<Ram32>>, 800, 400, 100),
      FilterDeal(TRUE, <<Ram32>>, 800, 400, 200),
      FilterDeal(TRUE, <<Ram32>>, 800, 350, 200),
      FilterDeal(FALSE, <<Ram32>>, 800, 400, 200),
      FilterDeal(TRUE, <<Ram16>>, 800, 400, 0),
      FilterDeal(TRUE, <<Ram16, Ram32>>, 800, 400, 0),
      FilterDeal(TRUE, <<Ram32NoDdr>>, 800, 400, 0),
      FilterDeal(TRUE, <<>>, 800, 400, 0),
      FilterDeal(TRUE, <<Ram32>>, min_budget, 400, 0),
      FilterDeal(TRUE, <<Ram32>>, max_budget, 400, 0),
      FilterDeal(TRUE, <<Ram32>>, min_budget - 1, 400, 0),
      FilterDeal(TRUE, <<Ram32>>, max_budget + 1, 400, 0) }

\* The four deals of test_full_pipeline after calculate_savings and
\* enrich_deals: $879 with 32 GB, $849 with 64 GB, $459 with 32 GB and
\* $219 with 16 GB, all DDR5 and in stock.
PipelineTestDeals ==
    <<FilterDeal(TRUE, <<Ram32>>, 879, 449, 200),
      FilterDeal(TRUE, <<Ram64>>, 849, 449, 200),
      FilterDeal(TRUE, <<Ram32>>, 459, 379, 100),
      FilterDeal(TRUE, <<Ram16>>, 219, 0, 0)>>

FilterInputs ==
    UNION {[1..n -> FilterDeals] : n \in 0..MaxDeals} \cup {PipelineTestDeals}

\* filter_deals(deals, config) and, per input deal, the reasons it records.
CallFilterDeals ==
    /\ fpc = "filter_deals"
    /\ ret' = Returned("filter_deals",
                       [filtered |-> filter_deals(arg),
                        reasons |-> [i \in 1..Len(arg) |-> Reasons(arg[i])]])
    /\ fpc' = "done"
    /\ UNCHANGED <<arg, runVars, urlVars, neweggVars, lookupVars, cacheVars, runner>>


\* A standalone RAM deal as it reaches filter_ram_deals.
RamFilterDeal(ddr, capacity_gb, price, savings, speed_mhz) ==
    [RAMDeal("Newegg", NeweggRamUrl, capacity_gb, price, price + savings)
        EXCEPT !.ddr_version = ddr, !.savings = savings, !.speed_mhz = speed_mhz]

RamFilterDeals ==
    { RamFilterDeal(5, 64, 650, 0, 6000),
      RamFilterDeal(5, 64, 651, 0, 6000),
      RamFilterDeal(5, 64, 0, 0, 6000),
      RamFilterDeal(5, 64, 500, 50, 6000),
      RamFilterDeal(5, 64, 500, 50, 6400),
      RamFilterDeal(5, 64, 500, 100, 5600),
      RamFilterDeal(4, 64, 500, 50, 6000),
      RamFilterDeal(5, 32, 100, 50, 6000),
      RamFilterDeal(5, 16, 50, 0, 6000),
      RamFilterDeal(5, 48, 450, 0, 6000),
      RamFilterDeal(5, 48, 451, 0, 6000),
      RamFilterDeal(5, 96, 800, 0, 6400),
      RamFilterDeal(5, 128, 801, 0, 6000) }

RamFilterInputs == UNION {[1..n -> RamFilterDeals] : n \in 0..MaxDeals}

\* filter_ram_deals(deals)
CallFilterRamDeals ==
    /\ fpc = "filter_ram_deals"
    /\ ret' = Returned("filter_ram_deals", filter_ram_deals(arg))
    /\ fpc' = "done"
    /\ UNCHANGED <<arg, runVars, urlVars, neweggVars, lookupVars, cacheVars, runner>>


(***************************************************************************)
(* Component names: _detect_category and _parse_ram_specs of the scrapers. *)
(***************************************************************************)
\* A lower-cased product name is a sequence of words; a keyword occurs in
\* the name (kw in name_lower) when one of the words is the keyword.
MaxWords == 2

HasAny(name, keywords) == \E i \in 1..Len(name) : name[i] \in keywords

\* scrapers/newegg.py: motherboard keywords, CPU keywords, the CPU SKU
\* pattern \d{3}-\d{9,}[a-z]{0,4}, RAM keywords.
newegg_detect_category(name) ==
    LET mb_keywords == {"x870", "x670", "b850", "b650", "b550", "x570",
                        "z790", "z690", "b760", "b660", "z890",
                        "motherboard", "mainboard",
                        "rog strix", "tuf gaming", "mag ", "aorus", "prime"}
        cpu_keywords == {"ryzen", "core i", "core ultra", "threadripper",
                         "9850x3d", "9800x3d", "9700x", "9600x", "9950x", "9900x",
                         "7800x3d", "7700x", "7600x", "7950x", "7900x",
                         "14900k", "14700k", "14600k", "13900k", "13700k", "13600k",
                         "285k", "265k", "245k"}
        cpu_skus == {"100-100001973wof"}
        ram_keywords == {"ddr5", "ddr4", "ram", "memory", "trident", "vengeance", "fury",
                         "corsair cmh", "corsair cmk", "v-color", "v color", "tmxs",
                         "team group", "ff3d", "kingston fury", "gskill", "g.skill"}
    IN IF HasAny(name, mb_keywords) THEN "motherboard"
       ELSE IF HasAny(name, cpu_keywords) THEN "cpu"
       ELSE IF HasAny(name, cpu_skus) THEN "cpu"
       ELSE IF HasAny(name, ram_keywords) THEN "ram"
       ELSE "unknown"

\* scrapers/amazon.py: CPU keywords, motherboard keywords, RAM keywords.
amazon_detect_category(name) ==
    LET cpu_keywords == {"ryzen", "core i", "core ultra", "threadripper",
                         "9800x3d", "9700x", "9600x", "9950x", "9900x",
                         "7800x3d", "7700x", "7600x", "7950x", "7900x",
                         "14900k", "14700k", "14600k", "13900k", "13700k", "13600k",
                         "285k", "265k", "245k"}
        mb_keywords == {"x870", "x670", "b850", "b650", "b550", "x570",
                        "z790", "z690", "b760", "b660", "z890",
                        "motherboard", "mainboard",
                        "rog strix", "tuf gaming", "mag ", "aorus", "prime"}
        ram_keywords == {"ddr5", "ddr4", "ram", "memory", "trident", "vengeance", "fury"}
    IN IF HasAny(name, cpu_keywords) THEN "cpu"
       ELSE IF HasAny(name, mb_keywords) THEN "motherboard"
       ELSE IF HasAny(name, ram_keywords) THEN "ram"
       ELSE "unknown"

\* scrapers/microcenter.py: the same lists in the same order as Amazon's.
microcenter_detect_category(name) ==
    LET cpu_keywords == {"ryzen", "core i", "core ultra", "threadripper",
                         "9800x3d", "9700x", "9600x", "9950x", "9900x",
                         "7800x3d", "7700x", "7600x", "7950x", "7900x",
                         "14900k", "14700k", "14600k", "13900k", "13700k", "13600k",
                         "285k", "265k", "245k"}
        mb_keywords == {"x870", "x670", "b850", "b650", "b550", "x570",
                        "z790", "z690", "b760", "b660", "z890",
                        "motherboard", "mainboard",
                        "rog strix", "tuf gaming", "mag ", "aorus", "prime"}
        ram_keywords == {"ddr5", "ddr4", "ram", "memory", "trident", "vengeance", "fury"}
    IN IF HasAny(name, cpu_keywords) THEN "cpu"
       ELSE IF HasAny(name, mb_keywords) THEN "motherboard"
       ELSE IF HasAny(name, ram_keywords) THEN "ram"
       ELSE "unknown"

ComboScrapers == {"NeweggScraper", "AmazonScraper", "MicroCenterScraper"}

\* Names of at most MaxWords words: a chipset code, the word motherboard,
\* a CPU family, a CPU model, an AMD SKU, RAM words and a brand.
DetectInputs ==
    LET words == {"x870", "motherboard", "ryzen", "9800x3d",
                  "100-100001973wof", "ddr5", "g.skill", "gigabyte"}
    IN {[scraper |-> s, name |-> n] :
          s \in ComboScrapers, n \in UNION {[1..k -> words] : k \in 0..MaxWords}}

\* _detect_category(name) of the module of arg.scraper
CallDetectCategory ==
    /\ fpc = "_detect_category"
    /\ ret' = Returned("_detect_category",
                       CASE arg.scraper = "NeweggScraper" -> newegg_detect_category(arg.name)
                         [] arg.scraper = "AmazonScraper" -> amazon_detect_category(arg.name)
                         [] arg.scraper = "MicroCenterScraper" -> microcenter_detect_category(arg.name))
    /\ fpc' = "done"
    /\ UNCHANGED <<arg, runVars, urlVars, neweggVars, lookupVars, cacheVars, runner>>

\* The words of a RAM name that the capacity patterns can match: a kit
\* "<sticks>x<per_stick>GB" (spaced: "<sticks> x <per_stick> GB"), a plain
\* "<gb>GB", and any other word.
Kit(sticks, per_stick, spaced) ==
    [kind |-> "kit", sticks |-> sticks, gb |-> per_stick, spaced |-> spaced]
Plain(gb) == [kind |-> "plain", sticks |-> 0, gb |-> gb, spaced |-> FALSE]
Word == [kind |-> "word", sticks |-> 0, gb |-> 0, spaced |-> FALSE]

\* re.search: the leftmost match. (\d+)\s*x\s*(\d+)\s*gb matches a kit;
\* (\d+)\s*gb matches the "<per_stick>GB" of a kit or a plain "<gb>GB".
FirstOf(name, kinds) ==
    LET hits == {i \in 1..Len(name) : name[i].kind \in kinds}
    IN IF hits = {} THEN 0 ELSE CHOOSE i \in hits : \A j \in hits : i <= j

Capacity(gb) == [k \in {"capacity_gb"} |-> gb]

\* scrapers/newegg.py (used by scrapers/ram.py too): the kit pattern, else
\* the plain one. Only the capacity is modelled.
newegg_parse_ram_specs(name) ==
    LET kit_match == FirstOf(name, {"kit"})
        cap_match == FirstOf(name, {"kit", "plain"})
    IN IF kit_match # 0
       THEN Capacity(name[kit_match].sticks * name[kit_match].gb)
       ELSE IF cap_match # 0 THEN Capacity(name[cap_match].gb)
       ELSE NoSpecs

\* scrapers/amazon.py: the plain pattern only.
amazon_parse_ram_specs(name) ==
    LET cap_match == FirstOf(name, {"kit", "plain"})
    IN IF cap_match # 0 THEN Capacity(name[cap_match].gb) ELSE NoSpecs

\* scrapers/microcenter.py: the plain pattern only.
microcenter_parse_ram_specs(name) ==
    LET cap_match == FirstOf(name, {"kit", "plain"})
    IN IF cap_match # 0 THEN Capacity(name[cap_match].gb) ELSE NoSpecs

RamNameInputs ==
    LET words == {Kit(2, 16, FALSE), Kit(2, 16, TRUE), Kit(2, 32, FALSE),
                  Plain(32), Plain(64), Word}
    IN {[scraper |-> s, name |-> n] :
          s \in ComboScrapers, n \in UNION {[1..k -> words] : k \in 0..MaxWords}}

\* _parse_ram_specs(name) of the module of arg.scraper
CallParseRamSpecs ==
    /\ fpc = "_parse_ram_specs"
    /\ ret' = Returned("_parse_ram_specs",
                       CASE arg.scraper = "NeweggScraper" -> newegg_parse_ram_specs(arg.name)
                         [] arg.scraper = "AmazonScraper" -> amazon_parse_ram_specs(arg.name)
                         [] arg.scraper = "MicroCenterScraper" -> microcenter_parse_ram_specs(arg.name))
    /\ fpc' = "done"
    /\ UNCHANGED <<arg, runVars, urlVars, neweggVars, lookupVars, cacheVars, runner>>


(***************************************************************************)
(* The webhook requests of one notification call.                          *)
(***************************************************************************)
MaxEmbeds == 21

NotifyFunctions == {"send_discord_notifications", "send_ram_discord_notifications",
                    "send_discord_expired_notifications"}

\* A plausible slip: the slice starts one element late.
BatchFromNext(embeds, i) ==
    SubSeq(embeds, i + 2, IF i + BatchSize < Len(embeds) THEN i + BatchSize ELSE Len(embeds))

\* embeds[i : i + 10], i counted from 0 as in the code
Batch(embeds, i) ==
    SubSeq(embeds, i + 1, IF i + BatchSize < Len(embeds) THEN i + BatchSize ELSE Len(embeds))

\* The payloads of "for i in range(0, len(embeds), 10)", in loop order;
\* content is TRUE for the summary line and FALSE for None.
Payloads(embeds) ==
    [b \in 1..NumBatches(Len(embeds)) |->
        LET i == (b - 1) * BatchSize
        IN [content |-> (i = 0), embeds |-> Batch(embeds, i)]]

\* The requests the function makes before it returns: the two new-deal
\* functions stop at a request that raises, the expired one at the first
\* request for which _send_webhook returns False.
RequestsMade(fn, outs) ==
    LET failing == {i \in 1..Len(outs) : ~_send_webhook(outs[i])}
    IN IF fn = "send_discord_expired_notifications"
       THEN IF failing = {} THEN outs ELSE SubSeq(outs, 1, MinOf(failing))
       ELSE Dispatched(outs)

\* The list the function batches has arg.n entries (the new deals in list
\* order; the out-of-stock deals followed by the sorted vanished URLs).
NotifyInputs ==
    {[fn |-> f, n |-> n, outs |-> o] :
        f \in NotifyFunctions, n \in {0, 1, 9, 10, 11, 20, MaxEmbeds},
        o \in UNION {[1..k -> DispatchOutcomes] : k \in 0..NumBatches(MaxEmbeds)}}

CallNotify ==
    /\ fpc = "notify"
    /\ Len(arg.outs) = NumBatches(arg.n)
    /\ LET embeds == [k \in 1..arg.n |-> k]
           made == RequestsMade(arg.fn, arg.outs)
       IN ret' = Returned(arg.fn,
                          [payloads |-> SubSeq(Payloads(embeds), 1, Len(made)),
                           outcomes |-> made,
                           count |-> IF made = arg.outs THEN arg.n ELSE 0])
    /\ fpc' = "done"
    /\ UNCHANGED <<arg, runVars, urlVars, neweggVars, lookupVars, cacheVars, runner>>


(***************************************************************************)
(* DealCache: the price cache with its TTL and the detail cache.           *)
(***************************************************************************)
\* Time is counted in units of four hours: price_ttl is 28800 seconds.
price_ttl == 2
MaxClock == 3

CacheNames == {"Ryzen 7 9800X3D", "Trident Z5 32GB"}
CachePrices == {450, 480}
CacheUrls == {NeweggComboUrl}
CacheDetails == {"detail", "detail again"}

\* Python's None is <<>>, a value v is <<v>>.
Some(v) == <<v>>
None == <<>>

\* A plausible slip: an entry as old as the TTL is expired.
load_amazon_price_below(prices, component_name, now) ==
    IF component_name \notin DOMAIN prices THEN None
    ELSE LET entry == prices[component_name]
             age == now - entry.timestamp
         IN IF age >= price_ttl THEN None ELSE Some(entry.price)

load_amazon_price(prices, component_name, now) ==
    IF component_name \notin DOMAIN prices THEN None
    ELSE LET entry == prices[component_name]
             age == now - entry.timestamp
         IN IF age > price_ttl THEN None ELSE Some(entry.price)

save_amazon_price(prices, component_name, price, now) ==
    [n \in DOMAIN prices \cup {component_name} |->
        IF n = component_name THEN [price |-> price, timestamp |-> now] ELSE prices[n]]

load_deal_detail(cached, url) ==
    IF url \in DOMAIN cached THEN Some(cached[url]) ELSE None

save_deal_detail(cached, url, detail) ==
    [u \in DOMAIN cached \cup {url} |-> IF u = url THEN detail ELSE cached[u]]

Saved(kind, key, value) ==
    [saves EXCEPT ![kind] =
        [k \in DOMAIN saves[kind] \cup {key} |->
            IF k = key THEN [value |-> value, at |-> clock] ELSE saves[kind][k]]]

LoadAmazonPrice ==
    /\ fpc = "DealCache"
    /\ \E name \in CacheNames :
          /\ arg' = [component_name |-> name]
          /\ ret' = Returned("load_amazon_price", load_amazon_price(_prices, name, clock))
    /\ UNCHANGED <<fpc, cacheVars, runVars, urlVars, neweggVars, lookupVars, runner>>

SaveAmazonPrice ==
    /\ fpc = "DealCache"
    /\ \E name \in CacheNames, price \in CachePrices :
          /\ arg' = [component_name |-> name, price |-> price]
          /\ _prices' = save_amazon_price(_prices, name, price, clock)
          /\ saves' = Saved("price", name, price)
    /\ ret' = Returned("save_amazon_price", None)
    /\ UNCHANGED <<fpc, clock, runVars, urlVars, neweggVars, lookupVars, runner>>

LoadDealDetail ==
    /\ fpc = "DealCache"
    /\ \E url \in CacheUrls :
          /\ arg' = [url |-> url]
          /\ ret' = Returned("load_deal_detail", load_deal_detail(details, url))
    /\ UNCHANGED <<fpc, cacheVars, runVars, urlVars, neweggVars, lookupVars, runner>>

SaveDealDetail ==
    /\ fpc = "DealCache"
    /\ \E url \in CacheUrls, detail \in CacheDetails :
          /\ arg' = [url |-> url, detail |-> detail]
          /\ details' = save_deal_detail(details, url, detail)
          /\ saves' = Saved("detail", url, detail)
    /\ ret' = Returned("save_deal_detail", None)
    /\ UNCHANGED <<fpc, _prices, clock, details_file, fetched, scrape_log, nscrapes,
                   runVars, urlVars, lookupVars, runner>>

\* Time passes between two calls.
Tick ==
    /\ fpc = "DealCache"
    /\ clock < MaxClock
    /\ clock' = clock + 1
    /\ arg' = NoValue
    /\ ret' = NoValue
    /\ UNCHANGED <<fpc, _prices, saves, runVars, urlVars, neweggVars, lookupVars, runner>>


(***************************************************************************)
(* One Amazon scrape followed by the new-deal notification.                *)
(***************************************************************************)
\* What the search queries of one scrape return, in query order: the same
\* product under the href of each query, and another product.
QueryResults ==
    { Bundle(AmazonUrl("1", "?qid=1"), 900, Ram32, TRUE),
      Bundle(AmazonUrl("1", "?qid=2"), 900, Ram32, TRUE),
      Bundle(AmazonUrl("2", "?qid=1"), 950, Ram64, TRUE) }

ScrapeNotifyInputs ==
    {[page |-> p, file |-> f] :
        p \in UNION {[1..n -> QueryResults] : n \in 0..MaxItems},
        f \in {{}, {AmazonKey(Asin("2"))}}}

\* AmazonScraper.scrape, main's filter_deals and send_discord_notifications
\* with a webhook that answers 204: the deals notified as new and the
\* seen-set the call saves.
CallScrapeNotify ==
    /\ fpc = "scrape_notify"
    /\ LET deals == AmazonScraper_scrape(arg.page)
           kept == filter_deals([i \in 1..Len(deals) |-> calculate_savings(deals[i])])
           new_deals == NewDeals(kept, load_seen_urls(arg.file))
           outs == [b \in 1..NumBatches(Len(new_deals)) |-> "204"]
       IN ret' = Returned("scrape; send_discord_notifications",
                          [new_deals |-> new_deals,
                           file |-> send_new_notifications(kept, TRUE, arg.file, outs).file])
    /\ fpc' = "done"
    /\ UNCHANGED <<arg, runVars, urlVars, neweggVars, lookupVars, cacheVars, runner>>


(***************************************************************************)
(* BaseScraper.run step by step: the browser of each attempt.              *)
(***************************************************************************)
\* _launch_browser: start(), chromium.launch(), new_context() and
\* new_page() in turn; the first that raises ends the try block.
LaunchOutcomes == {"start_raises", "launch_raises", "context_raises", "page_raises", "ok"}

RunLaunch ==
    /\ fpc = "run_steps"
    /\ runner.pc = "launch"
    /\ \E o \in LaunchOutcomes :
          LET k == runner.attempt
              started == o # "start_raises"
              launched == o \notin {"start_raises", "launch_raises"}
              has_context == o \in {"page_raises", "ok"}
          IN runner' = [runner EXCEPT
                          !._playwright = IF started THEN k ELSE @,
                          !._browser = IF launched THEN k ELSE @,
                          !.open = IF launched THEN @ \cup {k} ELSE @,
                          !._context = IF has_context THEN k ELSE @,
                          !.pc = IF o = "ok" THEN "scrape" ELSE "except"]
    /\ UNCHANGED <<fnVars, runVars, urlVars, neweggVars, lookupVars, cacheVars>>

\* deals = await self.scrape(); return deals
RunScrape ==
    /\ fpc = "run_steps"
    /\ runner.pc = "scrape"
    /\ \E raises \in BOOLEAN :
          runner' = IF raises THEN [runner EXCEPT !.pc = "except"]
                    ELSE [runner EXCEPT !.pc = "finally", !.then = "return deals"]
    /\ UNCHANGED <<fnVars, runVars, urlVars, neweggVars, lookupVars, cacheVars>>

\* except Exception: sleep and go round again, or return [] after the
\* last attempt; the finally clause runs after either.
RunExcept ==
    /\ fpc = "run_steps"
    /\ runner.pc = "except"
    /\ runner' = [runner EXCEPT
                    !.pc = "finally",
                    !.then = IF runner.attempt < max_retries THEN "retry" ELSE "return []"]
    /\ UNCHANGED <<fnVars, runVars, urlVars, neweggVars, lookupVars, cacheVars>>

\* finally: _close_browser.  Each call it makes may raise, and what it
\* raises leaves run(); _browser.close() closes the browser it is called on
\* unless it raises, when the browser may or may not be left open.
CloseOutcomes ==
    {"ok", "context_close_raises", "browser_close_raises", "browser_close_raises_closed",
     "stop_raises"}

RunFinally ==
    /\ fpc = "run_steps"
    /\ runner.pc = "finally"
    /\ \E o \in CloseOutcomes :
          LET no_playwright == runner._playwright = -1
              browser_closed == /\ o # "context_close_raises"
                                /\ o # "browser_close_raises"
                                /\ runner._browser # 0
              raises == o # "ok" \/ no_playwright
          IN /\ o = "context_close_raises" => runner._context # 0
             /\ o \in {"browser_close_raises", "browser_close_raises_closed"}
                   => runner._browser # 0
             /\ o = "stop_raises" => ~no_playwright
             /\ runner' = [runner EXCEPT
                             !.open = IF browser_closed THEN @ \ {runner._browser} ELSE @,
                             !.pc = IF raises THEN "raised"
                                    ELSE IF runner.then = "retry" THEN "launch"
                                    ELSE "returned",
                             !.attempt = IF ~raises /\ runner.then = "retry"
                                         THEN @ + 1 ELSE @]
    /\ UNCHANGED <<fnVars, runVars, urlVars, neweggVars, lookupVars, cacheVars>>

\* One scraper object, its scrape() result and what each attempt does.
RunInputs ==
    {[outcomes |-> o, deals |-> scrape("AmazonScraper", page)] :
        o \in [1..max_retries -> AttemptOutcomes], page \in Pages("AmazonScraper")}

InitFn ==
    /\ RunIdle
    /\ UrlIdle
    /\ NeweggIdle
    /\ ret = NoValue
    /\ price_cache = NoPrices
    /\ assigned = <<>>
    /\ searched = <<>>
    /\ CacheIdle
    /\ \/ fpc = "load_seen_urls" /\ arg \in SeenFileContents /\ disk_prices = NoPrices
       \/ fpc = "BaseScraper.run" /\ arg \in RunInputs /\ disk_prices = NoPrices
       \/ fpc = "NeweggScraper.scrape" /\ arg = NoValue /\ disk_prices = NoPrices
       \/ fpc = "lookup_prices" /\ arg \in LookupInputs /\ disk_prices \in DiskPrices
       \/ fpc = "parse" /\ arg \in ParseInputs /\ disk_prices = NoPrices
       \/ fpc = "filter_ram_deals" /\ arg \in RamFilterInputs /\ disk_prices = NoPrices
       \/ fpc = "_detect_category" /\ arg \in DetectInputs /\ disk_prices = NoPrices
       \/ fpc = "_parse_ram_specs" /\ arg \in RamNameInputs /\ disk_prices = NoPrices
       \/ fpc = "notify" /\ arg \in NotifyInputs /\ Len(arg.outs) = NumBatches(arg.n) /\ disk_prices = NoPrices
       \/ fpc = "DealCache" /\ arg = NoValue /\ disk_prices = NoPrices
       \/ fpc = "scrape_notify" /\ arg \in ScrapeNotifyInputs /\ disk_prices = NoPrices
       \/ fpc = "run_steps" /\ arg = NoValue /\ disk_prices = NoPrices
       \/ fpc = "filter_deals" /\ arg \in FilterInputs /\ disk_prices = NoPrices

CallLoadSeenUrls ==
    /\ fpc = "load_seen_urls"
    /\ ret' = load_seen_urls_from(arg)
    /\ fpc' = "done"
    /\ UNCHANGED <<arg, runVars, urlVars, neweggVars, lookupVars, cacheVars, runner>>

CallRun ==
    /\ fpc = "BaseScraper.run"
    /\ LET r == BaseScraper_run(arg.outcomes, arg.deals)
       IN ret' = IF r.result = "raised"
                 THEN Raised("BaseScraper.run", r)
                 ELSE Returned("BaseScraper.run", r)
    /\ fpc' = "done"
    /\ UNCHANGED <<arg, runVars, urlVars, neweggVars, lookupVars, cacheVars, runner>>

NextFn ==
    \/ CallLoadSeenUrls
    \/ CallRun
    \/ NeweggScrape
    \/ NeweggNextRun
    \/ NeweggAbortRun
    \/ CallLookupPrices
    \/ MainFilterDeals
    \/ CallLookupRamPrices
    \/ CallParse
    \/ CallFilterRamDeals
    \/ CallDetectCategory
    \/ CallParseRamSpecs
    \/ CallNotify
    \/ LoadAmazonPrice
    \/ SaveAmazonPrice
    \/ LoadDealDetail
    \/ SaveDealDetail
    \/ Tick
    \/ CallScrapeNotify
    \/ RunLaunch
    \/ RunScrape
    \/ RunExcept
    \/ RunFinally
    \/ CallFilterDeals

SpecFn == InitFn /\ [][NextFn]_vars

\* The file holds what _save_seen_urls writes: a JSON list of strings.
WellFormed(content) ==
    /\ content.kind = "list"
    /\ \A i \in 1..Len(content.items) : content.items[i].t = "str"

\* C11: load_seen_urls never raises, and for a file that is missing,
\* unreadable or not a JSON list of strings it returns the empty set.
C11_LoadSeenUrlsNeverRaises ==
    (fpc = "done" /\ ret.fn = "load_seen_urls") =>
        /\ ~ret.raised
        /\ ~WellFormed(arg) => ret.value = {}

\* The attempt fails: the launch or the scrape raises.
AttemptFails(outcome) == outcome \in {"fail", "start_fails"}

Backoff(n) == [k \in 1..n |-> retry_backoff ^ k]

\* C14: BaseScraper.run makes at most max_retries attempts, returns the
\* result of the first attempt that succeeds, sleeps retry_backoff ** attempt
\* after every failed attempt but the last, and returns the empty list after
\* the last failed attempt, whether the scrape or the browser launch failed.
C14_BoundedRetry ==
    (fpc = "done" /\ ret.fn = "BaseScraper.run"
        /\ \A k \in 1..max_retries : arg.outcomes[k] # "close_raises") =>
        LET o == arg.outcomes
            r == ret.value
            firstOk == {k \in 1..max_retries :
                           o[k] = "ok" /\ \A j \in 1..(k - 1) : AttemptFails(o[j])}
        IN /\ r.attempts <= max_retries
           /\ \A k \in firstOk :
                  /\ ~ret.raised
                  /\ r.deals = arg.deals
                  /\ r.attempts = k
                  /\ r.waits = Backoff(k - 1)
           /\ (\A k \in 1..max_retries : AttemptFails(o[k])) =>
                  /\ ~ret.raised
                  /\ r.deals = <<>>
                  /\ r.attempts = max_retries
                  /\ r.waits = Backoff(max_retries - 1)

\* C12: once the detail page of a listing URL has been fetched, no later
\* scrape, in the same run or a later one, fetches the detail page of that
\* URL again: the listing is served from the detail cache.
C12_DetailFetchedOnce ==
    [][(fpc = "NeweggScraper.scrape" /\ nscrapes' = nscrapes + 1) =>
          \A i \in 1..Len(scrape_log') :
              scrape_log'[i].source = "fetch" => scrape_log'[i].url \notin fetched]_vars

\* C13: in NeweggScraper.scrape the deal obtained by detail enrichment, from
\* the page or from the cache, replaces the parsed deal exactly when its
\* combo_type is not OTHER, the parsed deal is returned as it was otherwise,
\* and no returned deal has combo_type OTHER.
C13_DetailReplacesUnlessOther ==
    \A i \in 1..Len(scrape_log) :
        LET e == scrape_log[i]
        IN /\ e.out # NoDeal => e.out.combo_type # "OTHER"
           /\ e.source \in {"cache", "fetch"} =>
                  IF e.detail # NoDeal /\ e.detail.combo_type # "OTHER"
                  THEN e.out = e.detail
                  ELSE e.out = e.initial

\* One scrape in which a listing is replaced by the deal rebuilt from the
\* cache and another keeps its parsed deal because its detail page parses
\* as OTHER.
C13_Witness ==
    /\ \E i \in 1..Len(scrape_log) :
           /\ scrape_log[i].source = "cache"
           /\ scrape_log[i].out = scrape_log[i].detail
           /\ scrape_log[i].out # scrape_log[i].initial
    /\ \E i \in 1..Len(scrape_log) :
           /\ scrape_log[i].source = "fetch"
           /\ scrape_log[i].detail # NoDeal
           /\ scrape_log[i].detail.combo_type = "OTHER"
           /\ scrape_log[i].out = scrape_log[i].initial

NoRepeat(seq) == \A i, j \in 1..Len(seq) : seq[i] = seq[j] => i = j

\* C15: within one AmazonPriceLookup instance every key of the in-memory
\* price cache is assigned at most once and its entry never changes
\* afterwards, so the price search runs at most once per distinct name
\* across lookup_prices and lookup_ram_prices.
C15_PriceCacheWriteOnce ==
    /\ [](NoRepeat(assigned) /\ NoRepeat(searched))
    /\ [][\A n \in DOMAIN price_cache :
              n \in DOMAIN price_cache' /\ price_cache'[n] = price_cache[n]]_vars

\* lookup_prices searched for the memory kit of a combo and
\* lookup_ram_prices priced a standalone kit of that name from memory.
C15_Witness ==
    /\ fpc = "done"
    /\ ret.fn = "lookup_ram_prices"
    /\ searched = <<"cpu7", "board", "kit32">>
    /\ \E i \in 1..Len(ret.value) :
           /\ ret.value[i].name = "kit32"
           /\ ret.value[i].amazon_price = price_cache["kit32"]
           /\ ret.value[i].amazon_price > 0

SavingsConsistent(deal) ==
    /\ deal.individual_total = SumPrices(deal.components)
    /\ deal.savings = deal.individual_total - deal.combo_price

\* C16: when lookup_prices has returned, whether every price was cached,
\* the prices were searched or the search was skipped, every deal has
\* individual_total equal to the sum of its components' individual_price and
\* savings equal to individual_total - combo_price, and the deals ranked by
\* filter_deals still have it.
C16_SavingsAfterLookup ==
    (ret.fn \in {"lookup_prices", "main.filter_deals"}) =>
        \A i \in 1..Len(ret.value) : SavingsConsistent(ret.value[i])

\* Playwright is missing, the memory kit is priced from the disk cache and
\* the other parts stay unpriced: the combo's total is the kit's price.
C16_Witness ==
    /\ ret.fn = "lookup_prices"
    /\ ~arg.playwright
    /\ \E i \in 1..Len(ret.value) :
           /\ ret.value[i].individual_total = 310
           /\ ret.value[i].savings = 310 - 800

RecognizedCategories == {"cpu", "motherboard", "ram"}

CountOf(deal, category) ==
    Cardinality({i \in 1..Len(deal.components) : deal.components[i].category = category})

\* The deals the assemblers have built: the result of the assembler applied
\* and, in a scrape, the deals parsed from the detail page or rebuilt from
\* the cache.
Assembled ==
    (IF ret.fn \in Assemblers /\ ret.value # NoDeal THEN {ret.value} ELSE {})
        \cup {scrape_log[i].detail :
                 i \in {j \in 1..Len(scrape_log) : scrape_log[j].detail # NoDeal}}

\* C17: every ComboDeal an assembler builds holds at most one component of
\* each category, whatever the raw listing.
C17_OneComponentPerCategory ==
    \A deal \in Assembled :
        \A category \in RecognizedCategories : CountOf(deal, category) <= 1

\* The combo_type the mapping gives for a set of recognized categories.
TypeOf(categories) ==
    IF categories = {"cpu", "motherboard", "ram"} THEN "CPU+MB+RAM"
    ELSE IF categories = {"cpu", "ram"} THEN "CPU+RAM"
    ELSE IF categories = {"motherboard", "ram"} THEN "MB+RAM"
    ELSE IF categories = {"cpu", "motherboard"} THEN "CPU+MB"
    ELSE "OTHER"

CategoriesOf(deal) ==
    {deal.components[i].category : i \in 1..Len(deal.components)}
        \cap RecognizedCategories

\* The deals the scrapers emit: an assembler's result and what the latest
\* NeweggScraper.scrape returned.
Emitted ==
    (IF ret.fn \in Assemblers /\ ret.value # NoDeal THEN {ret.value} ELSE {})
        \cup {ScrapedDeals[i] : i \in 1..Len(ScrapedDeals)}

\* C18: the combo_type of every deal a scraper emits, parsed from a listing
\* or a detail page or rebuilt from the detail cache, is the fixed mapping
\* of the set of recognized categories (cpu, motherboard, ram) among its
\* components, whatever their order.
C18_ComboTypeOfCategories ==
    \A deal \in Emitted : deal.combo_type = TypeOf(CategoriesOf(deal))

\* One scrape returns a deal rebuilt from the detail cache and a deal
\* parsed from its listing, both of three categories.
C18_Witness ==
    /\ \E i \in 1..Len(scrape_log) :
           /\ scrape_log[i].source = "cache"
           /\ scrape_log[i].out = scrape_log[i].detail
           /\ scrape_log[i].out.combo_type = "CPU+MB+RAM"
    /\ \E i \in 1..Len(scrape_log) :
           /\ scrape_log[i].source = "none"
           /\ scrape_log[i].out.combo_type = "CPU+MB+RAM"

\* The deal has a RAM component of DDR5 with at least min_ram_gb.
HasFittingRam(deal) ==
    \E i \in 1..Len(deal.components) :
        LET c == deal.components[i]
        IN /\ c.category = "ram"
           /\ "ddr" \in DOMAIN c.specs /\ c.specs["ddr"] = 5
           /\ "capacity_gb" \in DOMAIN c.specs /\ c.specs["capacity_gb"] >= min_ram_gb

Qualifies(deal) ==
    /\ deal.in_stock
    /\ HasFittingRam(deal)
    /\ min_budget <= deal.combo_price /\ deal.combo_price <= max_budget

Occurrences(seq, x) == Cardinality({i \in 1..Len(seq) : seq[i] = x})

\* C19: filter_deals returns exactly the input deals that are in stock, have
\* a RAM component with ddr 5 and capacity_gb of at least min_ram_gb and a
\* combo_price within [min_budget, max_budget], bounds included; a deal is
\* dropped exactly when a rejection reason was recorded for it.
C19_FilterKeepsQualifying ==
    (ret.fn = "filter_deals") =>
        \A i \in 1..Len(arg) :
            /\ Occurrences(ret.value.filtered, arg[i]) =
                   (IF Qualifies(arg[i]) THEN Occurrences(arg, arg[i]) ELSE 0)
            /\ (Occurrences(ret.value.filtered, arg[i]) = 0) <=> (ret.value.reasons[i] # {})

\* C20: the list filter_deals returns is ordered by savings descending and,
\* for equal savings, by cpu_sc_score descending, so a deal without a score
\* (0) comes after every scored deal of the same savings.
C20_FilterOrder ==
    (ret.fn = "filter_deals") =>
        LET out == ret.value.filtered
        IN \A i, j \in 1..Len(out) :
               i < j =>
                   \/ out[i].savings > out[j].savings
                   \/ /\ out[i].savings = out[j].savings
                      /\ out[i].cpu_sc_score >= out[j].cpu_sc_score

\* The input lists an unscored deal first, then a deal of smaller savings
\* and a scored deal of the same savings; the scored one is returned first
\* and the deal of smaller savings last.
C20_Witness ==
    /\ ret.fn = "filter_deals"
    /\ Len(arg) = 3
    /\ Len(ret.value.filtered) = 3
    /\ arg[1].cpu_sc_score = 0
    /\ arg[2].savings < arg[1].savings
    /\ arg[3].savings = arg[1].savings /\ arg[3].cpu_sc_score > 0
    /\ ret.value.filtered = <<arg[3], arg[1], arg[2]>>

\* The tier limit of a capacity; 0 for a capacity that is not a tier.
TierLimit(capacity_gb) ==
    IF capacity_gb = 48 THEN 450
    ELSE IF capacity_gb = 64 THEN 650
    ELSE IF capacity_gb \in {96, 128} THEN 800
    ELSE 0

RamQualifies(deal) ==
    /\ deal.ddr_version = 5
    /\ deal.capacity_gb \in {48, 64, 96, 128}
    /\ 0 < deal.price /\ deal.price <= TierLimit(deal.capacity_gb)

\* C21: filter_ram_deals keeps a deal exactly when it is DDR5, its capacity
\* is 48, 64, 96 or 128 GB and 0 < price <= the limit of its tier, the limit
\* included; any other capacity, 32 GB too, is rejected at every price; the
\* result is ordered by savings descending, then speed_mhz descending.
C21_RamFilter ==
    (ret.fn = "filter_ram_deals") =>
        LET out == ret.value
        IN /\ \A i \in 1..Len(arg) :
                  Occurrences(out, arg[i]) =
                      (IF RamQualifies(arg[i]) THEN Occurrences(arg, arg[i]) ELSE 0)
           /\ \A i, j \in 1..Len(out) :
                  i < j =>
                      \/ out[i].savings > out[j].savings
                      \/ /\ out[i].savings = out[j].savings
                         /\ out[i].speed_mhz >= out[j].speed_mhz

\* A cheap 32 GB kit is rejected, a 64 GB kit at exactly $650 is kept and
\* comes after a faster kit of the same savings listed behind it.
C21_Witness ==
    /\ ret.fn = "filter_ram_deals"
    /\ Len(arg) = 3
    /\ arg[1].capacity_gb = 32 /\ arg[1].price = 100
    /\ arg[2].capacity_gb = 64 /\ arg[2].price = 650
    /\ arg[3].savings = arg[2].savings /\ arg[3].speed_mhz > arg[2].speed_mhz
    /\ ret.value = <<arg[3], arg[2]>>

\* C22: with the default Config filter_deals applied to the four deals of
\* the pipeline test returns exactly the three deals with at least 32 GB,
\* the $459 one among them.
C22_PipelineTestKeepsThree ==
    (ret.fn = "filter_deals" /\ arg = PipelineTestDeals) =>
        Range(ret.value.filtered) = {arg[1], arg[2], arg[3]}

\* C23: in every combo scraper (Newegg, Amazon, MicroCenter) a name that
\* holds both a motherboard keyword or chipset code and a CPU-family keyword
\* is classified "motherboard": the motherboard rule is evaluated first.
MbWords == {"x870", "motherboard"}
CpuFamilyWords == {"ryzen"}
C23_MotherboardRuleFirst ==
    (ret.fn = "_detect_category" /\ HasAny(arg.name, MbWords)
        /\ HasAny(arg.name, CpuFamilyWords))
    => ret.value = "motherboard"

\* C24: in every scraper that parses RAM components the capacity is
\* sticks x per-stick of the kit notation when the name holds one, the
\* plain <k>GB value only when it holds none, and absent otherwise.
C24_KitBeforePlain ==
    ret.fn = "_parse_ram_specs" =>
        LET kit == FirstOf(arg.name, {"kit"})
            plain == FirstOf(arg.name, {"plain"})
        IN ret.value = IF kit # 0 THEN Capacity(arg.name[kit].sticks * arg.name[kit].gb)
                       ELSE IF plain # 0 THEN Capacity(arg.name[plain].gb)
                       ELSE NoSpecs

RECURSIVE Concat(_)
Concat(seqs) == IF seqs = <<>> THEN <<>> ELSE Head(seqs) \o Concat(Tail(seqs))

\* Every request of the call went through: none raised and, for the
\* expired notification, each was answered 204.
AllSucceeded ==
    /\ ret.value.outcomes = arg.outs
    /\ "raise" \notin Range(arg.outs)
    /\ arg.fn = "send_discord_expired_notifications" => Range(arg.outs) \subseteq {"204"}

\* C25: each of the three notification functions dispatches its embeds in
\* consecutive requests of at most ten; when all requests succeed every
\* embed is sent in exactly one request, in list order, and only the first
\* request carries the summary content line.
C25_BatchesOfTen ==
    (fpc = "done" /\ ret.fn \in NotifyFunctions) =>
        LET p == ret.value.payloads
        IN /\ \A b \in 1..Len(p) : Len(p[b].embeds) <= BatchSize
           /\ AllSucceeded =>
                 /\ Concat([b \in 1..Len(p) |-> p[b].embeds]) = [k \in 1..arg.n |-> k]
                 /\ \A b \in 1..Len(p) : p[b].content <=> (b = 1)

C25_Witness ==
    /\ fpc = "done" /\ ret.fn = "send_discord_expired_notifications"
    /\ arg.n = MaxEmbeds /\ AllSucceeded
    /\ Len(ret.value.payloads) = NumBatches(MaxEmbeds)
    /\ Len(ret.value.payloads) > 2

\* C26: a URL that send_discord_expired_notifications has notified as
\* expired is no longer in the persisted seen-set and is not reported as
\* expired again by a later run, out of stock or absent as it may stay,
\* unless a new-deal notification has carried it in between.
C26_ExpiredOnce ==
    /\ expired \cap load_seen_urls(seen_file) = {}
    /\ expired \cap seen_file = {}
    /\ pc = "send_expired" =>
          expired \cap ({oos_deals[i].url : i \in 1..Len(oos_deals)}
                            \cup disappeared_urls) = {}

\* A later run does not list a URL notified as expired although every
\* scraper succeeded, and reports nothing for it.
C26_Witness ==
    /\ run > 1 /\ pc = "send_expired"
    /\ \A k \in DOMAIN scraper_results : scraper_results[k] = "ok"
    /\ \E u \in expired : u \notin CurrentUrls(all_deals, all_ram_deals)

\* C28: whenever a notification function saves the seen-set, every URL of
\* the saved file is a fixed point of normalize_url, whatever list of URLs
\* the file held before and whatever notifications came earlier.
C28_PersistedFixedPoints ==
    [][writes' > writes => \A u \in seen_file' : normalize_url(u) = u]_vars

\* A new deal scraped under a URL with query parameters has been saved
\* under its key.
C28_Witness ==
    /\ writes > 0
    /\ \E i \in 1..Len(all_deals) :
          /\ normalize_url(all_deals[i].url) \in new_ids.combo \cap seen_file
          /\ all_deals[i].url \notin seen_file

\* C27: load_amazon_price returns the saved price exactly when the name has
\* an entry whose age is at most price_ttl (an entry exactly price_ttl old
\* is served) and None otherwise, the entry being that of the latest save;
\* load_deal_detail returns the saved detail whatever its age.
C27_PriceTtl ==
    /\ ret.fn = "load_amazon_price" =>
          LET n == arg.component_name
          IN ret.value = IF n \in DOMAIN saves.price /\ clock - saves.price[n].at <= price_ttl
                         THEN Some(saves.price[n].value) ELSE None
    /\ ret.fn = "load_deal_detail" =>
          ret.value = IF arg.url \in DOMAIN saves.detail
                      THEN Some(saves.detail[arg.url].value) ELSE None

\* A price saved a second time is served when it is exactly price_ttl old,
\* next to a detail that is older than that.
C27_Witness ==
    /\ ret.fn = "load_amazon_price"
    /\ arg.component_name \in DOMAIN saves.price
    /\ saves.price[arg.component_name].at > 0
    /\ clock - saves.price[arg.component_name].at = price_ttl
    /\ ret.value = Some(saves.price[arg.component_name].value)
    /\ \E u \in CacheUrls :
          u \in DOMAIN saves.detail /\ clock - saves.detail[u].at > price_ttl

\* C29: the deals one new-deal notification carries have pairwise different
\* canonical identities: two scraped deals whose URLs normalize to the same
\* key are not both notified as new.
C29_OneDealPerIdentity ==
    (fpc = "done" /\ ret.fn = "scrape; send_discord_notifications") =>
        LET new_deals == ret.value.new_deals
        IN \A i, j \in 1..Len(new_deals) :
              normalize_url(new_deals[i].url) = normalize_url(new_deals[j].url) => i = j

\* C30: in BaseScraper.run at most one browser is open at any time, the
\* browser of an attempt is closed before the next attempt launches, and no
\* browser is open once run has returned or raised.
C30_BrowserClosed ==
    fpc = "run_steps" =>
        /\ Cardinality(runner.open) <= 1
        /\ runner.pc \in {"launch", "returned", "raised"} => runner.open = {}

====
